---- MODULE Spec2Model ----
(***************************************************************************)
(* The task/lock core of memory-access: the tasks, task_dependencies,      *)
(* task_locks and task_events tables and the TaskStore operations over     *)
(* them (src/src/memory_access/task_store.py).  Each TaskStore call runs   *)
(* in its own thread (asyncio.to_thread) on its own SQLite connection;     *)
(* transition() is a BEGIN IMMEDIATE transaction, modelled step by step    *)
(* with the database write lock, every other call is one autocommit        *)
(* statement.  The triggers and indexes of the task tables are created by  *)
(* a migration of memory_access/storage.py, which is not part of the       *)
(* sources at hand: they are modelled from the specification's section 4.7 *)
(* and marked so in the definitions below.                                 *)
(*                                                                         *)
(* The insight store (src/src/sem_mem/storage.py): the migration runner of *)
(* InsightStore.initialize(), statement by statement on its connection,    *)
(* and insert, get, update and delete over the insights, subjects,         *)
(* insight_subjects and subject_relations tables.                          *)
(* Vector search (search_by_embedding) ranks the stored embeddings by      *)
(* cosine similarity, kept exact as a pair of integers; knowledge bases    *)
(* and their chunks are created, filled and deleted with the foreign keys  *)
(* of the schema.                                                          *)
(*                                                                         *)
(* The ingestion pipeline (src/src/memory_access/normalizer.py and         *)
(* ingest.py): normalize() decomposes a text and gathers one classify()    *)
(* per atom, the calls completing in any order; ingest_page() splits a     *)
(* page, normalizes chunk by chunk, filters by confidence (kept in         *)
(* ten-thousandths), embeds the kept insights in one batch and stores them *)
(* one by one; ingest_crawl() ingests the crawled pages in order and       *)
(* reports each to the progress callback first.                            *)
(*                                                                         *)
(* The validator scripts (src/hooks/scripts/on_lock_update.py,             *)
(* pre_complete.py, pre_write_scope_check.py and the operator guide's      *)
(* check_lock_overlap.py): one process per run, from stdin to stdout and   *)
(* exit code.  The application handlers of src/src/memory_access/server.py *)
(* are modelled as far as update_insight.                                  *)
(***************************************************************************)
EXTENDS Integers, Sequences, FiniteSets, TLC

\* ------------------------------------------------------------------ bounds

\* Largest expected_version a caller passes to transition().
MaxVersion == 2
\* Rows task_events may hold (each successful transition appends one).
MaxEvents == 3
\* Rows task_locks may hold (released locks stay as inactive rows).
MaxLocks == 2
\* Insights insert() may create.
MaxInsights == 2
\* uuid4() calls of a store that holds knowledge bases and chunks.
MaxKbIds == 4
\* Atoms decompose() may return for one text.
MaxAtoms == 2
\* Pages crawl() may return.
MaxPages == 2
\* Entries of one lock table a validator reads.
MaxHookLocks == 2
\* Entries of one acceptance_check list pre_complete reads.
MaxChecks == 2

\* ------------------------------------------------------------- value sets

TaskIds == {"t1", "t2"}
Workers == {"w1", "w2"}
NoWorker == "none"

\* models.py TaskState
TaskState == {"todo", "in_progress", "blocked", "done", "failed", "canceled"}

VARIABLES
    tasks,              \* committed tasks table: task_id -> row
    task_dependencies,  \* committed set of <<task_id, depends_on_task_id>>
    task_locks,         \* committed task_locks rows, in insertion order
    task_events,        \* committed task_events rows, in insertion order
    dbLock,             \* connection holding SQLite's write lock, or NoWorker
    txTasks,            \* tasks as seen inside the open write transaction
    txEvents,           \* task_events as seen inside the open write transaction
    pc,                 \* per transition() call: position in _transition_sync
    req,                \* per transition() call: its arguments
    result,             \* per transition() call: value returned or error raised
    overlapped,         \* per transition() call: another call was in flight when it was issued
    ret,                \* outcome of the last single-statement operation
    db,                 \* committed content of the insight store's database file
    conn,               \* the database as seen by initialize()'s open connection
    initialize,         \* the running (or last) InsightStore.initialize() call
    returned,           \* value returned by the last insert/get/update/delete
    uuids,              \* number of ids uuid4() has produced for insert()
    normalize,          \* the running (or last) Normalizer.normalize() call
    ingest,             \* the running (or last) Ingestor.ingest_page() call
    environ,            \* os.environ: the variables that are set
    ingest_crawl,       \* the running (or last) Ingestor.ingest_crawl() call
    hook,               \* the last run of a validator script: stdin, stdout, exit code
    app                 \* outcome of the last MemoryAccessApp call: value or exception

taskVars == <<tasks, task_dependencies, task_locks, task_events, dbLock, txTasks,
              txEvents, pc, req, result, overlapped, ret>>
storeVars == <<db, conn, initialize, returned, uuids>>
pipeVars == <<normalize, ingest, environ>>
toolVars == <<ingest_crawl, hook, app>>
vars == <<taskVars, storeVars, pipeVars, toolVars>>

\* ------------------------------------------------------------------ tasks

\* orm_models.py TaskModel: the columns the state machine reads and writes
\* (retry_count and version default to 0).
TaskRow(status, version, retry_count) ==
    [status |-> status, version |-> version, retry_count |-> retry_count]

NoRequest == [task_id |-> "none", from_state |-> "none", to_state |-> "none",
              expected_version |-> 0]
NoResult == [kind |-> "none", status |-> "none", version |-> 0, retry_count |-> 0]
NoRet == [op |-> "none", task_id |-> "none", err |-> "none", count |-> 0,
          resource |-> <<>>]

Request(t, from, to, ev) ==
    [task_id |-> t, from_state |-> from, to_state |-> to, expected_version |-> ev]

ErrorResult(kind) == [kind |-> kind, status |-> "none", version |-> 0, retry_count |-> 0]

\* task_store.py 190-200: the TransitionResult built from the re-read row.
OkResult(row) ==
    [kind |-> "ok", status |-> row.status, version |-> row.version,
     retry_count |-> row.retry_count]

\* ---------------------------------------------------------- insight store

\* A database file with nothing in it.  schema holds the tables (and the
\* columns added by ALTER TABLE) that exist; insights is keyed by id, and
\* embedding is its embedding column, with the ids of the rows where it is
\* not NULL; knowledge_bases and kb_chunks are keyed by id; the other tables
\* are kept in insertion order.
EmptyDb ==
    [schema |-> {}, schema_versions |-> <<>>, insights |-> <<>>, embedding |-> <<>>,
     subjects |-> <<>>, insight_subjects |-> <<>>, insight_relations |-> <<>>,
     subject_relations |-> <<>>, knowledge_bases |-> <<>>, kb_chunks |-> <<>>,
     kb_chunk_subjects |-> <<>>]

\* No initialize() call has been made.
NoInitialize ==
    [pc |-> "idle", current_version |-> 0, version |-> 0, step |-> 0,
     ran |-> <<>>, before |-> EmptyDb, at_body |-> EmptyDb]

\* models.py Insight: the text, the five tag lists and the source.  Strings
\* that are stripped and lowercased are sequences of characters.
Insight(text, domains, entities, problems, resolutions, contexts, source) ==
    [text |-> text, domains |-> domains, entities |-> entities,
     problems |-> problems, resolutions |-> resolutions, contexts |-> contexts,
     source |-> source]

NoInsight == Insight("", <<>>, <<>>, <<>>, <<>>, <<>>, "")

NoReturned == [op |-> "none", id |-> 0, found |-> FALSE, row |-> NoInsight]

\* No normalize() call yet: its arguments, the atoms decompose() gave, the
\* classify() results that have arrived (by position of the atom), the order
\* they arrived in and the insights returned.
NoNormalize == [pc |-> "idle", text |-> <<>>, source |-> "", domains |-> <<>>,
                atoms |-> <<>>, classifications |-> <<>>, order |-> <<>>,
                insights |-> <<>>]

\* No ingest_page() call yet: its arguments, the chunks of the page, the
\* chunk being normalized, the insights collected and kept, the threshold
\* read, the embed_batch() calls made, the rows stored and the value returned.
NoIngest == [pc |-> "idle", kb_id |-> 0, url |-> "", text_chunks |-> <<>>, chunk |-> 0,
             all_insights |-> <<>>, min_threshold |-> 0, filtered |-> <<>>,
             embed_batch |-> <<>>, embeddings |-> <<>>, stored |-> 0, skipped |-> {},
             ret |-> 0]

\* No ingest_crawl() call yet: the knowledge base, the pages crawled, the
\* page being ingested, whether a progress callback was given and the calls
\* it received, the chunks stored so far and the value returned.
NoIngestCrawl == [pc |-> "idle", kb_id |-> 0, pages |-> <<>>, page |-> 0,
                  has_progress |-> FALSE, on_progress |-> <<>>, total_chunks |-> 0,
                  ret |-> 0]

\* No validator script has run: the script, the JSON document on its stdin,
\* the lines it wrote to stdout and its exit code.
NoHook == [script |-> "none", stdin |-> [json |-> "empty"], stdout |-> <<>>, exit |-> 0]

\* No MemoryAccessApp call yet.
NoApp == [op |-> "none", raised |-> "none", value |-> ""]

Init ==
    /\ db = EmptyDb
    /\ conn = EmptyDb
    /\ initialize = NoInitialize
    /\ returned = NoReturned
    /\ uuids = 0
    /\ normalize = NoNormalize
    /\ ingest = NoIngest
    /\ environ = <<>>
    /\ ingest_crawl = NoIngestCrawl
    /\ hook = NoHook
    /\ app = NoApp
    /\ tasks = <<>>
    /\ task_dependencies = {}
    /\ task_locks = <<>>
    /\ task_events = <<>>
    /\ dbLock = NoWorker
    /\ txTasks = <<>>
    /\ txEvents = <<>>
    /\ pc = [w \in Workers |-> "idle"]
    /\ req = [w \in Workers |-> NoRequest]
    /\ result = [w \in Workers |-> NoResult]
    /\ overlapped = [w \in Workers |-> FALSE]
    /\ ret = NoRet

\* _create_task_sync: INSERT of a todo row at version 0.  task_id is the
\* primary key: inserting an id a second time raises IntegrityError and leaves
\* the table as it is, so only the first insert is a step.
CreateTask(t) ==
    /\ dbLock = NoWorker
    /\ t \notin DOMAIN tasks
    /\ tasks' = tasks @@ (t :> TaskRow("todo", 0, 0))
    /\ UNCHANGED <<task_dependencies, task_locks, task_events, dbLock, txTasks,
                   txEvents, pc, req, result, overlapped, ret>>
    /\ UNCHANGED <<storeVars, pipeVars, toolVars>>

\* _add_dependencies_sync: one INSERT ... ON CONFLICT IGNORE per non-empty
\* dep_id.  Nothing in the handler looks at the status of either task.
\* Callers pass ids obtained from create_task and do not declare a task its
\* own dependency.
AddedDependencies(t, ds) ==
    {<<t, ds[i]>> : i \in {j \in DOMAIN ds : ds[j] # ""}}

AddDependencies(t, ds) ==
    /\ dbLock = NoWorker
    /\ t \in DOMAIN tasks
    /\ \A i \in DOMAIN ds : ds[i] = "" \/ (ds[i] \in DOMAIN tasks /\ ds[i] # t)
    /\ task_dependencies' = task_dependencies \cup AddedDependencies(t, ds)
    /\ UNCHANGED <<tasks, task_locks, task_events, dbLock, txTasks, txEvents,
                   pc, req, result, overlapped, ret>>
    /\ UNCHANGED <<storeVars, pipeVars, toolVars>>

\* ----------------------------------------------------------------- events

EventRow(t, event_type, from, to) ==
    [task_id |-> t, event_type |-> event_type, from_state |-> from, to_state |-> to]

\* The INSERT replacing the newest row when there is one (a fixed event id
\* with INSERT OR REPLACE).
AppendEventOverwrites(t, event_type) ==
    /\ dbLock = NoWorker
    /\ t \in DOMAIN tasks
    /\ Len(task_events) + Cardinality({w \in Workers : pc[w] \notin {"idle", "done"}})
         < MaxEvents
    /\ task_events' =
          IF task_events = <<>>
            THEN <<EventRow(t, event_type, "none", "none")>>
            ELSE [task_events EXCEPT ![Len(task_events)] =
                      EventRow(t, event_type, "none", "none")]
    /\ UNCHANGED <<tasks, task_dependencies, task_locks, dbLock, txTasks, txEvents,
                   pc, req, result, overlapped, ret>>
    /\ UNCHANGED <<storeVars, pipeVars, toolVars>>

\* _append_event_sync: one INSERT into task_events.
AppendEvent(t, event_type) ==
    /\ dbLock = NoWorker
    /\ t \in DOMAIN tasks
    /\ Len(task_events) + Cardinality({w \in Workers : pc[w] \notin {"idle", "done"}})
         < MaxEvents
    /\ task_events' = Append(task_events, EventRow(t, event_type, "none", "none"))
    /\ UNCHANGED <<tasks, task_dependencies, task_locks, dbLock, txTasks, txEvents,
                   pc, req, result, overlapped, ret>>
    /\ UNCHANGED <<storeVars, pipeVars, toolVars>>

\* Section 2 of the specification: event rows are immutable once written.
\* The trigger on UPDATE of task_events aborts every such statement.
TaskEventsUpdateRejected(old, new) == TRUE

\* tests/test_task_store.py 172-175: a client runs
\* UPDATE task_events SET event_type = ? WHERE id = ? on its own connection.
UpdateEvent(i, event_type) ==
    /\ dbLock = NoWorker
    /\ i \in DOMAIN task_events
    /\ LET new == [task_events[i] EXCEPT !.event_type = event_type]
       IN IF TaskEventsUpdateRejected(task_events[i], new)
            THEN /\ task_events' = task_events
                 /\ ret' = [NoRet EXCEPT !.op = "update_event",
                                         !.task_id = task_events[i].task_id,
                                         !.err = "IntegrityError"]
            ELSE /\ task_events' = [task_events EXCEPT ![i] = new]
                 /\ ret' = [NoRet EXCEPT !.op = "update_event",
                                         !.task_id = task_events[i].task_id,
                                         !.count = 1]
    /\ UNCHANGED <<tasks, task_dependencies, task_locks, dbLock, txTasks, txEvents,
                   pc, req, result, overlapped>>
    /\ UNCHANGED <<storeVars, pipeVars, toolVars>>

\* ------------------------------------------------------------- transition

\* Section 4.7 of the specification: the exhaustive transition table the
\* tasks trigger enforces.
ValidTransition(from, to) ==
    \/ from = "todo" /\ to \in {"in_progress", "canceled"}
    \/ from = "in_progress" /\ to \in {"done", "failed", "blocked", "canceled"}
    \/ from = "blocked" /\ to \in {"todo", "canceled"}
    \/ from = "failed" /\ to \in {"todo", "canceled"}

\* Every declared dependency of t is a task in state done.
DependenciesDone(tbl, deps, t) ==
    \A d \in TaskIds :
        <<t, d>> \in deps => (d \in DOMAIN tbl /\ tbl[d].status = "done")

\* The trigger on UPDATE of tasks: it aborts the statement with one of the
\* two messages _transition_sync looks for.  The state-machine check comes
\* first, the dependency gate second.
TaskUpdateTrigger(tbl, deps, t, to) ==
    IF ~ValidTransition(tbl[t].status, to)
      THEN "invalid task state transition"
      ELSE IF to = "in_progress" /\ ~DependenciesDone(tbl, deps, t)
             THEN "task dependencies not complete"
             ELSE "ok"

\* task_store.py 154: WHERE task_id = ? AND status = ? AND version = ?
CasWhere(row, r) ==
    row.status = r.from_state /\ row.version = r.expected_version

\* The SET clause without "version = version + 1".
CasSetKeepsVersion(row, to) ==
    [status |-> to,
     retry_count |-> IF to = "blocked" THEN row.retry_count + 1 ELSE row.retry_count,
     version |-> row.version]

\* The SET clause adding the retry increment to the version as well.
CasSetVersionWithRetry(row, to) ==
    [status |-> to,
     retry_count |-> IF to = "blocked" THEN row.retry_count + 1 ELSE row.retry_count,
     version |-> row.version + (IF to = "blocked" THEN 2 ELSE 1)]

\* The SET clause counting the retry when the task goes back to todo.
CasSetRetryOnTodo(row, to) ==
    [status |-> to,
     retry_count |-> IF to = "todo" THEN row.retry_count + 1 ELSE row.retry_count,
     version |-> row.version + 1]

\* task_store.py 150-153: the SET clause.
CasSet(row, to) ==
    [status |-> to,
     retry_count |-> IF to = "blocked" THEN row.retry_count + 1 ELSE row.retry_count,
     version |-> row.version + 1]

\* The re-read comparing the status before the version.
ZeroRowErrorStatusFirst(tbl, r) ==
    IF r.task_id \notin DOMAIN tbl
      THEN "TaskNotFound"
      ELSE IF tbl[r.task_id].status # r.from_state
             THEN "InvalidTransition"
             ELSE "ConcurrencyConflict"

\* task_store.py 158-168: rowcount # 1, the row is read again to pick the error.
ZeroRowError(tbl, r) ==
    IF r.task_id \notin DOMAIN tbl
      THEN "TaskNotFound"
      ELSE IF tbl[r.task_id].version # r.expected_version
             THEN "ConcurrencyConflict"
             ELSE "InvalidTransition"

\* The handler without the "invalid task state transition" branch.
MapDbErrorDependencyOnly(msg) ==
    IF msg = "task dependencies not complete"
      THEN "DependencyNotMet"
      ELSE "IntegrityError"

\* The handler testing for the state-machine message only.
MapDbErrorTransitionOnly(msg) ==
    IF msg = "invalid task state transition"
      THEN "InvalidTransition"
      ELSE "IntegrityError"

\* task_store.py 181-188: the trigger's message picks the typed error; any
\* other database error is raised again as it is.
MapDbError(msg) ==
    IF msg = "task dependencies not complete"
      THEN "DependencyNotMet"
      ELSE IF msg = "invalid task state transition"
             THEN "InvalidTransition"
             ELSE "IntegrityError"

\* The event payload with from_state and to_state exchanged.
StateTransitionEventSwapped(r) ==
    EventRow(r.task_id, "state_transition", r.to_state, r.from_state)

\* task_store.py 134-141, 170-174: the row INSERTed into task_events.
StateTransitionEvent(r) ==
    EventRow(r.task_id, "state_transition", r.from_state, r.to_state)

InFlight(w) == pc[w] \in {"pending", "updated", "inserted"}

\* transition(): the call is made; its arguments are fixed from here on.
Issue(w, r) ==
    /\ pc[w] = "idle"
    /\ Len(task_events) + Cardinality({v \in Workers : InFlight(v)}) < MaxEvents
    /\ pc' = [pc EXCEPT ![w] = "pending"]
    /\ req' = [req EXCEPT ![w] = r]
    /\ overlapped' = [v \in Workers |->
                        IF \E u \in Workers \ {w} : InFlight(u)
                          THEN (v = w \/ InFlight(v) \/ overlapped[v])
                          ELSE (v # w /\ overlapped[v])]
    /\ UNCHANGED <<tasks, task_dependencies, task_locks, task_events, dbLock,
                   txTasks, txEvents, result, ret>>
    /\ UNCHANGED <<storeVars, pipeVars, toolVars>>

\* conn.rollback() followed by raise: the transaction's view is dropped and
\* the write lock released.
Rollback(w, kind) ==
    /\ dbLock' = NoWorker
    /\ txTasks' = <<>>
    /\ txEvents' = <<>>
    /\ pc' = [pc EXCEPT ![w] = "done"]
    /\ result' = [result EXCEPT ![w] = ErrorResult(kind)]
    /\ UNCHANGED <<tasks, task_events>>

\* task_store.py 146-168 and 181-188: BEGIN IMMEDIATE takes the write lock,
\* waiting (busy_timeout) while another connection holds it, and the CAS
\* UPDATE runs under it.  No row matching the WHERE clause gives rowcount 0;
\* a matching row fires the trigger, which may abort the statement.
Update(w) ==
    /\ pc[w] = "pending"
    /\ dbLock = NoWorker
    /\ LET r == req[w]
           t == r.task_id
       IN IF t \in DOMAIN tasks /\ CasWhere(tasks[t], r)
            THEN LET msg == TaskUpdateTrigger(tasks, task_dependencies, t, r.to_state)
                 IN IF msg = "ok"
                      THEN /\ dbLock' = w
                           /\ txTasks' = [tasks EXCEPT ![t] = CasSet(@, r.to_state)]
                           /\ txEvents' = task_events
                           /\ pc' = [pc EXCEPT ![w] = "updated"]
                           /\ UNCHANGED <<tasks, task_events, result>>
                      ELSE Rollback(w, MapDbError(msg))
            ELSE Rollback(w, ZeroRowError(tasks, r))
    /\ UNCHANGED <<task_dependencies, task_locks, req, overlapped, ret>>
    /\ UNCHANGED <<storeVars, pipeVars, toolVars>>

\* task_store.py 170-174: the event INSERT inside the same transaction.
InsertEvent(w) ==
    /\ pc[w] = "updated"
    /\ txEvents' = Append(txEvents, StateTransitionEvent(req[w]))
    /\ pc' = [pc EXCEPT ![w] = "inserted"]
    /\ UNCHANGED <<tasks, task_dependencies, task_locks, task_events, dbLock,
                   txTasks, req, result, overlapped, ret>>
    /\ UNCHANGED <<storeVars, pipeVars, toolVars>>

\* task_store.py 176-180, 190-200: the row is read back, then COMMIT
\* publishes the task row and the event together.
Commit(w) ==
    /\ pc[w] = "inserted"
    /\ tasks' = txTasks
    /\ task_events' = txEvents
    /\ result' = [result EXCEPT ![w] = OkResult(txTasks[req[w].task_id])]
    /\ dbLock' = NoWorker
    /\ txTasks' = <<>>
    /\ txEvents' = <<>>
    /\ pc' = [pc EXCEPT ![w] = "done"]
    /\ UNCHANGED <<task_dependencies, task_locks, req, overlapped, ret>>
    /\ UNCHANGED <<storeVars, pipeVars, toolVars>>

\* The caller has the result; the thread is free for the next call.
Return(w) ==
    /\ pc[w] = "done"
    /\ pc' = [pc EXCEPT ![w] = "idle"]
    /\ req' = [req EXCEPT ![w] = NoRequest]
    /\ result' = [result EXCEPT ![w] = NoResult]
    /\ overlapped' = [overlapped EXCEPT ![w] = FALSE]
    /\ UNCHANGED <<tasks, task_dependencies, task_locks, task_events, dbLock,
                   txTasks, txEvents, ret>>
    /\ UNCHANGED <<storeVars, pipeVars, toolVars>>

\* Arguments a caller may pass to transition().
Requests ==
    {Request(t, from, to, ev) :
        t \in TaskIds, from \in TaskState, to \in TaskState, ev \in 0..MaxVersion}

\* Dependency lists passed to add_dependencies ("" is skipped by the handler).
DependencyLists == {<<d>> : d \in TaskIds \cup {""}}

\* A single caller: create_task, add_dependencies, append_event and
\* transition in any order, one transition() call at a time.
Quiet == \A w \in Workers : pc[w] = "idle"

NextTx ==
    \/ \E t \in TaskIds : Quiet /\ CreateTask(t)
    \/ \E t \in TaskIds, ds \in DependencyLists : Quiet /\ AddDependencies(t, ds)
    \/ \E t \in TaskIds : Quiet /\ AppendEvent(t, "manual_note")
    \/ \E r \in Requests : Issue("w1", r)
    \/ \E w \in Workers : Update(w)
    \/ \E w \in Workers : InsertEvent(w)
    \/ \E w \in Workers : Commit(w)
    \/ \E w \in Workers : Return(w)

SpecTx == Init /\ [][NextTx]_vars

\* Two callers, one transition() call each, issued in any order and
\* overlapping in any way (asyncio.gather over two to_thread calls), on tasks
\* that create_task has returned.
RaceRequests ==
    {Request(t, from, to, ev) :
        t \in TaskIds, from \in {"todo", "in_progress"},
        to \in {"in_progress", "done", "canceled"}, ev \in 0..1}

NextRace ==
    \/ \E t \in TaskIds : CreateTask(t)
    \/ \E w \in Workers, r \in RaceRequests : r.task_id \in DOMAIN tasks /\ Issue(w, r)
    \/ \E w \in Workers : Update(w)
    \/ \E w \in Workers : InsertEvent(w)
    \/ \E w \in Workers : Commit(w)

SpecRace == Init /\ [][NextRace]_vars

\* The event log: append_event and transition() calls writing it, and
\* clients trying to rewrite rows of it.
EventTypes == {"manual_note", "changed"}

NextEvents ==
    \/ \E t \in TaskIds : Quiet /\ CreateTask(t)
    \/ \E t \in TaskIds, ty \in EventTypes : Quiet /\ AppendEvent(t, ty)
    \/ \E i \in 1..MaxEvents, ty \in EventTypes : Quiet /\ UpdateEvent(i, ty)
    \/ \E r \in RaceRequests : Issue("w1", r)
    \/ \E w \in Workers : Update(w)
    \/ \E w \in Workers : InsertEvent(w)
    \/ \E w \in Workers : Commit(w)
    \/ \E w \in Workers : Return(w)

SpecEvents == Init /\ [][NextEvents]_vars

\* ------------------------------------------------------------------ locks

\* Resource paths are sequences of characters.
RECURSIVE StripLeft(_)
StripLeft(p) == IF p # <<>> /\ Head(p) = " " THEN StripLeft(Tail(p)) ELSE p

RECURSIVE StripRight(_)
StripRight(p) ==
    IF p # <<>> /\ p[Len(p)] = " " THEN StripRight(SubSeq(p, 1, Len(p) - 1)) ELSE p

ForwardSlashes(p) == [i \in DOMAIN p |-> IF p[i] = "\\" THEN "/" ELSE p[i]]

\* The segments of p between "/" characters; cur is the segment being read.
RECURSIVE Segments(_, _)
Segments(p, cur) ==
    IF p = <<>>
      THEN <<cur>>
      ELSE IF Head(p) = "/"
             THEN <<cur>> \o Segments(Tail(p), <<>>)
             ELSE Segments(Tail(p), Append(cur, Head(p)))

RECURSIVE KeptSegments(_)
KeptSegments(segs) ==
    IF segs = <<>>
      THEN <<>>
      ELSE IF Head(segs) = <<>> \/ Head(segs) = <<".">>
             THEN KeptSegments(Tail(segs))
             ELSE <<Head(segs)>> \o KeptSegments(Tail(segs))

RECURSIVE Joined(_)
Joined(segs) ==
    IF segs = <<>>
      THEN <<>>
      ELSE IF Len(segs) = 1
             THEN Head(segs)
             ELSE Head(segs) \o <<"/">> \o Joined(Tail(segs))

\* Section 4.7: strip, replace "\" with "/", collapse "./" and redundant
\* slashes, strip the trailing "/" unless the path is "/".
NormalizedResource(p) ==
    LET q == ForwardSlashes(StripRight(StripLeft(p)))
        body == Joined(KeptSegments(Segments(q, <<>>)))
    IN IF q # <<>> /\ Head(q) = "/" THEN <<"/">> \o body ELSE body

StartsWith(a, b) == Len(a) >= Len(b) /\ SubSeq(a, 1, Len(b)) = b

\* Section 2, invariant 5: A == B, or one starts with the other + "/".
Overlaps(a, b) ==
    a = b \/ StartsWith(a, b \o <<"/">>) \/ StartsWith(b, a \o <<"/">>)

\* Resource strings callers pass: "", "s", " s/", ".\s//a", "sa".
Resources ==
    { <<>>,
      <<"s">>,
      <<" ", "s", "/">>,
      <<".", "\\", "s", "/", "/", "a">>,
      <<"s", "a">> }

\* NormalizedResource over the resources in use, computed once.
Normalized == [p \in Resources |-> NormalizedResource(p)]

LockRow(t, resource, active) == [task_id |-> t, resource |-> resource, active |-> active]

\* The partial unique index on the normalized resource of active rows.
ActiveResourceIndexRejects(locks, t, resource) ==
    \E i \in DOMAIN locks :
        /\ locks[i].active
        /\ Normalized[locks[i].resource] = Normalized[resource]

\* The check trigger comparing for equality only.
LockOverlapTriggerEqualOnly(locks, t, resource) ==
    \E i \in DOMAIN locks :
        /\ locks[i].active
        /\ locks[i].task_id # t
        /\ Normalized[locks[i].resource] = Normalized[resource]

\* The check trigger looking at released rows too.
LockOverlapTriggerIgnoresActive(locks, t, resource) ==
    \E i \in DOMAIN locks :
        /\ locks[i].task_id # t
        /\ Overlaps(Normalized[locks[i].resource], Normalized[resource])

\* The check trigger: an active row of another task overlaps by path prefix.
LockOverlapTriggerRejects(locks, t, resource) ==
    \E i \in DOMAIN locks :
        /\ locks[i].active
        /\ locks[i].task_id # t
        /\ Overlaps(Normalized[locks[i].resource], Normalized[resource])

\* The INSERT of an active lock row raises IntegrityError.
LockInsertRejected(locks, t, resource) ==
    \/ ActiveResourceIndexRejects(locks, t, resource)
    \/ LockOverlapTriggerRejects(locks, t, resource)

\* The INSERT without the except clause: the IntegrityError propagates.
LockInsertErrorUnwrapped(rejected) == IF rejected THEN "IntegrityError" ELSE "none"

\* task_store.py 83-84: an IntegrityError of the INSERT becomes LockConflict.
LockInsertError(rejected) == IF rejected THEN "LockConflict" ELSE "none"

\* task_store.py 71-85: the loop over resources; every INSERT is its own
\* autocommit statement, so rows inserted before a conflict stay.
RECURSIVE AssignLoop(_, _, _, _)
AssignLoop(locks, t, rs, n) ==
    IF rs = <<>>
      THEN [locks |-> locks, err |-> "none", count |-> n, resource |-> <<>>]
      ELSE IF Head(rs) = <<>>
             THEN AssignLoop(locks, t, Tail(rs), n)
             ELSE LET err == LockInsertError(LockInsertRejected(locks, t, Head(rs)))
                  IN IF err # "none"
                       THEN [locks |-> locks, err |-> err, count |-> n,
                             resource |-> Head(rs)]
                       ELSE AssignLoop(Append(locks, LockRow(t, Head(rs), TRUE)),
                                       t, Tail(rs), n + 1)

\* _assign_locks_sync
AssignLocks(t, rs) ==
    /\ dbLock = NoWorker
    /\ t \in DOMAIN tasks
    /\ LET out == AssignLoop(task_locks, t, rs, 0)
       IN /\ Len(out.locks) <= MaxLocks
          /\ task_locks' = out.locks
          /\ ret' = [op |-> "assign_locks", task_id |-> t, err |-> out.err,
                     count |-> out.count, resource |-> out.resource]
    /\ UNCHANGED <<tasks, task_dependencies, task_events, dbLock, txTasks, txEvents,
                   pc, req, result, overlapped>>
    /\ UNCHANGED <<storeVars, pipeVars, toolVars>>

\* Section 4.7, Release: one UPDATE sets active = false on the task's active
\* locks and returns the number of rows it changed.
Released(locks, t) ==
    [i \in DOMAIN locks |->
        IF locks[i].task_id = t THEN [locks[i] EXCEPT !.active = FALSE] ELSE locks[i]]

ReleasedCount(locks, t) ==
    Cardinality({i \in DOMAIN locks : locks[i].task_id = t /\ locks[i].active})

ReleaseLocks(t) ==
    /\ dbLock = NoWorker
    /\ t \in DOMAIN tasks
    /\ task_locks' = Released(task_locks, t)
    /\ ret' = [op |-> "release_locks", task_id |-> t, err |-> "none",
               count |-> ReleasedCount(task_locks, t), resource |-> <<>>]
    /\ UNCHANGED <<tasks, task_dependencies, task_events, dbLock, txTasks, txEvents,
                   pc, req, result, overlapped>>
    /\ UNCHANGED <<storeVars, pipeVars, toolVars>>

\* Resource lists passed to one assign_locks call: one or two resources.
ResourceLists ==
    {<<r>> : r \in Resources} \cup {<<r1, r2>> : r1 \in Resources, r2 \in Resources}

NextLock ==
    \/ \E t \in TaskIds : CreateTask(t)
    \/ \E t \in TaskIds, rs \in ResourceLists : AssignLocks(t, rs)
    \/ \E t \in TaskIds : ReleaseLocks(t)

SpecLock == Init /\ [][NextLock]_vars

\* ----------------------------------------------- insight store: subjects

\* str.strip() and str.lower() on the characters that occur in the tags.
Whitespace == {" ", "\t", "\n"}

RECURSIVE LStrip(_)
LStrip(s) == IF s # <<>> /\ Head(s) \in Whitespace THEN LStrip(Tail(s)) ELSE s

RECURSIVE RStrip(_)
RStrip(s) ==
    IF s # <<>> /\ s[Len(s)] \in Whitespace THEN RStrip(SubSeq(s, 1, Len(s) - 1)) ELSE s

LowerChar(c) ==
    CASE c = "P" -> "p"
      [] c = "Y" -> "y"
      [] c = "M" -> "m"
      [] c = "L" -> "l"
      [] OTHER -> c

\* storage.py 275: name = item.strip().lower()
SubjectName(item) ==
    LET stripped == RStrip(LStrip(item))
    IN [i \in DOMAIN stripped |-> LowerChar(stripped[i])]

\* storage.py 278: uuid5(NAMESPACE_DNS, f"{kind}:{name}") is a function of
\* the pair, one id per (kind, name).
SubjectId(kind, name) == <<kind, name>>

SubjectRow(kind, name) == [id |-> SubjectId(kind, name), name |-> name, kind |-> kind]

\* INSERT into subjects with no conflict clause to drop the row.
InsertOrIgnoreSubjectAlways(tbl, row) == Append(tbl, row)

\* INSERT OR IGNORE INTO subjects: the row is dropped when its id (primary
\* key) or its (name, kind) (UNIQUE) is already there.
InsertOrIgnoreSubject(tbl, row) ==
    IF \E i \in DOMAIN tbl :
           tbl[i].id = row.id \/ (tbl[i].name = row.name /\ tbl[i].kind = row.kind)
      THEN tbl
      ELSE Append(tbl, row)

\* INSERT with no conflict clause and no primary key to stop a second copy.
InsertOrIgnoreAlways(tbl, row) == Append(tbl, row)

\* INSERT OR IGNORE into a table whose primary key is the whole row
\* (insight_subjects, subject_relations).
InsertOrIgnore(tbl, row) ==
    IF \E i \in DOMAIN tbl : tbl[i] = row THEN tbl ELSE Append(tbl, row)

RECURSIVE InsertAllOrIgnore(_, _)
InsertAllOrIgnore(tbl, rows) ==
    IF rows = <<>> THEN tbl ELSE InsertAllOrIgnore(InsertOrIgnore(tbl, Head(rows)), Tail(rows))

Membership(insight_id, subject_id) == [insight_id |-> insight_id, subject_id |-> subject_id]

\* storage.py 267-273: the (kind, item) pairs in the order the loops visit them.
Tagged(kind, items) == [i \in DOMAIN items |-> [kind |-> kind, item |-> items[i]]]

TagItems(insight) ==
    Tagged("domain", insight.domains) \o Tagged("entity", insight.entities)
      \o Tagged("problem", insight.problems) \o Tagged("resolution", insight.resolutions)
      \o Tagged("context", insight.contexts)

\* _upsert_subjects: for every tag that is non-empty after strip+lower, the
\* subject and the membership are inserted unless already there.
RECURSIVE UpsertTagged(_, _, _)
UpsertTagged(d, insight_id, pairs) ==
    IF pairs = <<>>
      THEN d
      ELSE LET kind == Head(pairs).kind
               name == SubjectName(Head(pairs).item)
           IN IF name = <<>>
                THEN UpsertTagged(d, insight_id, Tail(pairs))
                ELSE UpsertTagged(
                         [d EXCEPT
                            !.subjects = InsertOrIgnoreSubject(@, SubjectRow(kind, name)),
                            !.insight_subjects =
                                InsertOrIgnore(@, Membership(insight_id, SubjectId(kind, name)))],
                         insight_id, Tail(pairs))

UpsertSubjects(d, insight_id, insight) == UpsertTagged(d, insight_id, TagItems(insight))

\* ---------------------------------------- insight store: subject relations

SubjectRelation(from_subject_id, relation_type, to_subject_id) ==
    [from_subject_id |-> from_subject_id, to_subject_id |-> to_subject_id,
     relation_type |-> relation_type]

\* The two lists walked side by side instead of one inside the other.
RuleRelationsZipped(from_kind, relation_type, to_kind, from_items, to_items) ==
    LET n == IF Len(from_items) < Len(to_items) THEN Len(from_items) ELSE Len(to_items)
        Named(k) == SubjectName(from_items[k]) # <<>> /\ SubjectName(to_items[k]) # <<>>
        kept == SelectSeq([k \in 1..n |-> k], Named)
    IN [k \in DOMAIN kept |->
           SubjectRelation(SubjectId(from_kind, SubjectName(from_items[kept[k]])),
                           relation_type,
                           SubjectId(to_kind, SubjectName(to_items[kept[k]])))]

\* storage.py 380-402: one rule of _auto_relate_subjects.  The rule is
\* skipped when either list is empty; otherwise every (from, to) pair whose
\* names are both non-empty gives an edge, from_items in the outer loop.
RuleRelations(from_kind, relation_type, to_kind, from_items, to_items) ==
    IF from_items = <<>> \/ to_items = <<>>
      THEN <<>>
      ELSE LET n == Len(to_items)
               pairs == [k \in 1..(Len(from_items) * n) |->
                            [from_name |-> SubjectName(from_items[((k - 1) \div n) + 1]),
                             to_name |-> SubjectName(to_items[((k - 1) % n) + 1])]]
               Named(p) == p.from_name # <<>> /\ p.to_name # <<>>
               kept == SelectSeq(pairs, Named)
           IN [k \in DOMAIN kept |->
                  SubjectRelation(SubjectId(from_kind, kept[k].from_name), relation_type,
                                  SubjectId(to_kind, kept[k].to_name))]

\* storage.py 371-379: the seven rules, in order.
AutoRelations(insight) ==
    RuleRelations("context", "frames", "problem", insight.contexts, insight.problems)
      \o RuleRelations("context", "applies_to", "domain", insight.contexts, insight.domains)
      \o RuleRelations("context", "involves", "entity", insight.contexts, insight.entities)
      \o RuleRelations("entity", "has_problem", "problem", insight.entities, insight.problems)
      \o RuleRelations("problem", "solved_by", "resolution", insight.problems,
                       insight.resolutions)
      \o RuleRelations("resolution", "applies_to", "entity", insight.resolutions,
                       insight.entities)
      \o RuleRelations("domain", "scopes", "entity", insight.domains, insight.entities)

\* _auto_relate_subjects: INSERT OR IGNORE of every edge.
AutoRelateSubjects(d, insight) ==
    [d EXCEPT !.subject_relations = InsertAllOrIgnore(@, AutoRelations(insight))]

\* The git context passed to insert(); "" is the empty sequence.
GitContext(repo, pr, author, project, task) ==
    [repo |-> repo, pr |-> pr, author |-> author, project |-> project, task |-> task]

NoGit == GitContext(<<>>, <<>>, <<>>, <<>>, <<>>)

\* storage.py 303-309: git_params, in order.
GitParams(git) ==
    << [kind |-> "repo", name |-> git.repo], [kind |-> "pr", name |-> git.pr],
       [kind |-> "person", name |-> git.author], [kind |-> "project", name |-> git.project],
       [kind |-> "task", name |-> git.task] >>

\* storage.py 313-314: "if not name: continue" looks at the name as given.
GitSupplied(git, kind) ==
    \E i \in DOMAIN GitParams(git) :
        GitParams(git)[i].kind = kind /\ GitParams(git)[i].name # <<>>

\* storage.py 315-316: the id a supplied git parameter is stored under.
GitSubjectId(git, kind) ==
    LET i == CHOOSE j \in DOMAIN GitParams(git) : GitParams(git)[j].kind = kind
    IN SubjectId(kind, SubjectName(GitParams(git)[i].name))

\* storage.py 311-326: subject and membership of every supplied parameter.
RECURSIVE UpsertGitParams(_, _, _)
UpsertGitParams(d, insight_id, params) ==
    IF params = <<>>
      THEN d
      ELSE IF Head(params).name = <<>>
             THEN UpsertGitParams(d, insight_id, Tail(params))
             ELSE LET kind == Head(params).kind
                      name_lower == SubjectName(Head(params).name)
                  IN UpsertGitParams(
                         [d EXCEPT
                            !.subjects = InsertOrIgnoreSubject(@, SubjectRow(kind, name_lower)),
                            !.insight_subjects =
                                InsertOrIgnore(@, Membership(insight_id,
                                                             SubjectId(kind, name_lower)))],
                         insight_id, Tail(params))

\* The relation emitted as soon as its source was supplied.
GitEdgeFromOnly(git, from_kind, relation_type, to_kind) ==
    IF GitSupplied(git, from_kind)
      THEN << SubjectRelation(GitSubjectId(git, from_kind), relation_type,
                              GitSubjectId(git, to_kind)) >>
      ELSE <<>>

\* storage.py 331-349: the fixed relations whose two endpoints were supplied.
GitEdge(git, from_kind, relation_type, to_kind) ==
    IF GitSupplied(git, from_kind) /\ GitSupplied(git, to_kind)
      THEN << SubjectRelation(GitSubjectId(git, from_kind), relation_type,
                              GitSubjectId(git, to_kind)) >>
      ELSE <<>>

\* storage.py 351-358: one implemented_in edge per resolution with a
\* non-empty name, when a pr was supplied.
ResolutionEdges(git, insight) ==
    IF GitSupplied(git, "pr")
      THEN LET Named(item) == SubjectName(item) # <<>>
               kept == SelectSeq(insight.resolutions, Named)
           IN [k \in DOMAIN kept |->
                  SubjectRelation(SubjectId("resolution", SubjectName(kept[k])),
                                  "implemented_in", GitSubjectId(git, "pr"))]
      ELSE <<>>

GitRelations(git, insight) ==
    GitEdge(git, "repo", "contains", "project")
      \o GitEdge(git, "project", "contains", "task")
      \o GitEdge(git, "task", "produces", "pr")
      \o GitEdge(git, "person", "authors", "pr")
      \o GitEdge(git, "person", "works_on", "project")
      \o ResolutionEdges(git, insight)

\* _upsert_git_subjects
UpsertGitSubjects(d, insight_id, insight, git) ==
    LET with_subjects == UpsertGitParams(d, insight_id, GitParams(git))
    IN [with_subjects EXCEPT
          !.subject_relations = InsertAllOrIgnore(@, GitRelations(git, insight))]

\* --------------------------------------------- insight store: operations

\* No initialize() call is under way.
StoreIdle == initialize.pc \in {"idle", "returned", "failed"}

\* storage.py 419-463: the row, then (each only if its table exists) the tag
\* subjects, the auto-relations and the git subjects, committed together.
Inserted(d, insight_id, insight, git) ==
    LET row == [d EXCEPT !.insights = @ @@ (insight_id :> insight)]
    IN IF "subjects" \notin d.schema
         THEN row
         ELSE LET tagged == UpsertSubjects(row, insight_id, insight)
              IN IF "subject_relations" \notin d.schema
                   THEN tagged
                   ELSE LET related == AutoRelateSubjects(tagged, insight)
                        IN IF git # NoGit
                             THEN UpsertGitSubjects(related, insight_id, insight, git)
                             ELSE related

\* insert(): the insight carries no id, uuid4() gives a fresh one.
Insert(insight, git) ==
    /\ StoreIdle
    /\ "insights" \in db.schema
    /\ uuids < MaxInsights
    /\ uuids' = uuids + 1
    /\ db' = Inserted(db, uuids + 1, insight, git)
    /\ returned' = [op |-> "insert", id |-> uuids + 1, found |-> TRUE, row |-> NoInsight]
    /\ UNCHANGED <<conn, initialize>>
    /\ UNCHANGED <<taskVars, pipeVars, toolVars>>

\* get(): the row, or None.
Got(d, insight_id) ==
    IF insight_id \in DOMAIN d.insights
      THEN [found |-> TRUE, row |-> d.insights[insight_id]]
      ELSE [found |-> FALSE, row |-> NoInsight]

Get(insight_id) ==
    /\ StoreIdle
    /\ "insights" \in db.schema
    /\ returned' = [op |-> "get", id |-> insight_id, found |-> Got(db, insight_id).found,
                    row |-> Got(db, insight_id).row]
    /\ UNCHANGED <<db, conn, initialize, uuids>>
    /\ UNCHANGED <<taskVars, pipeVars, toolVars>>

\* storage.py 481: the fields update() writes.
Allowed ==
    {"text", "normalized_text", "frame", "domains", "entities", "problems",
     "resolutions", "contexts", "confidence", "source"}

\* storage.py 482: the keyword arguments that are in the allowlist.
Updates(kwargs) == [k \in DOMAIN kwargs \cap Allowed |-> kwargs[k]]

\* storage.py 487-505: UPDATE insights SET <the given columns> WHERE id = ?
UpdatedRow(row, updates) ==
    [k \in DOMAIN row |-> IF k \in DOMAIN updates THEN updates[k] ELSE row[k]]

\* update(): None for a missing id, the row as it is when no allowed field
\* was given, otherwise the row after the UPDATE.  Only the insights table
\* is written.
UpdateInsight(insight_id, kwargs) ==
    /\ StoreIdle
    /\ "insights" \in db.schema
    /\ IF insight_id \notin DOMAIN db.insights
         THEN /\ returned' = [op |-> "update", id |-> insight_id, found |-> FALSE,
                              row |-> NoInsight]
              /\ db' = db
         ELSE IF DOMAIN Updates(kwargs) = {}
                THEN /\ returned' = [op |-> "update", id |-> insight_id, found |-> TRUE,
                                     row |-> db.insights[insight_id]]
                     /\ db' = db
                ELSE /\ db' = [db EXCEPT !.insights[insight_id] =
                                             UpdatedRow(@, Updates(kwargs))]
                     /\ returned' = [op |-> "update", id |-> insight_id, found |-> TRUE,
                                     row |-> Got(db', insight_id).row]
    /\ UNCHANGED <<conn, initialize, uuids>>
    /\ UNCHANGED <<taskVars, pipeVars, toolVars>>

\* storage.py 511: delete() opens its connection without PRAGMA foreign_keys
\* = ON, and SQLite enforces foreign keys (ON DELETE CASCADE among them) only
\* on connections that set it.
DeleteForeignKeys == FALSE

\* DELETE FROM insights WHERE id = ? on a connection with foreign keys on
\* or off.
DeletedInsight(d, insight_id, foreign_keys) ==
    LET Keeps(m) == m.insight_id # insight_id
        Apart(r) == r.from_id # insight_id /\ r.to_id # insight_id
    IN [d EXCEPT
          !.insights = [i \in DOMAIN d.insights \ {insight_id} |-> d.insights[i]],
          !.embedding = [i \in DOMAIN d.embedding \ {insight_id} |-> d.embedding[i]],
          !.insight_subjects = IF foreign_keys THEN SelectSeq(@, Keeps) ELSE @,
          !.insight_relations = IF foreign_keys THEN SelectSeq(@, Apart) ELSE @]

\* delete(): True when a row was deleted.
Delete(insight_id) ==
    /\ StoreIdle
    /\ "insights" \in db.schema
    /\ db' = DeletedInsight(db, insight_id, DeleteForeignKeys)
    /\ returned' = [op |-> "delete", id |-> insight_id,
                    found |-> insight_id \in DOMAIN db.insights, row |-> NoInsight]
    /\ UNCHANGED <<conn, initialize, uuids>>
    /\ UNCHANGED <<taskVars, pipeVars, toolVars>>

\* ------------------------------------------------ insight store: search

\* insert(insight, embedding=None): the embedding column stays NULL.
NoEmbedding == <<>>

\* storage.py 416, 436: the embedding column of the new row.  The vectors are
\* float32 arrays of one dimension, which tobytes() and frombuffer(...,
\* float32) give back unchanged; their components are small integers.
InsertedEmbedding(d, insight_id, embedding) ==
    IF embedding = NoEmbedding
      THEN d
      ELSE [d EXCEPT !.embedding = @ @@ (insight_id :> embedding)]

\* insert() with an embedding and no git context.
InsertWithEmbedding(insight, embedding) ==
    /\ StoreIdle
    /\ "insights" \in db.schema
    /\ uuids < MaxInsights
    /\ uuids' = uuids + 1
    /\ db' = InsertedEmbedding(Inserted(db, uuids + 1, insight, NoGit), uuids + 1, embedding)
    /\ returned' = [op |-> "insert", id |-> uuids + 1, found |-> TRUE, row |-> NoInsight]
    /\ UNCHANGED <<conn, initialize>>
    /\ UNCHANGED <<taskVars, pipeVars, toolVars>>

\* np.dot of two vectors of the same length.
RECURSIVE Dot(_, _)
Dot(a, b) == IF a = <<>> THEN 0 ELSE Head(a) * Head(b) + Dot(Tail(a), Tail(b))

\* storage.py 541-545: the score dot / (norm_q * norm_s), kept as the dot
\* product and the product of the squared norms, so that scores are compared
\* exactly.
Score(query_embedding, stored_emb) ==
    [dot |-> Dot(query_embedding, stored_emb),
     norms |-> Dot(query_embedding, query_embedding) * Dot(stored_emb, stored_emb)]

\* a.dot / sqrt(a.norms) >= b.dot / sqrt(b.norms), by comparing the signed
\* squares.
ScoreAtLeast(a, b) ==
    LET Signed(x) == IF x < 0 THEN -(x * x) ELSE x * x
    IN Signed(a.dot) * b.norms >= Signed(b.dot) * a.norms

\* The characters of a string lowercased, nothing stripped.
Lower(s) == [i \in DOMAIN s |-> LowerChar(s[i])]

\* storage.py 527-530: domains LIKE '%"<domain>"%' on the JSON text of the
\* list.  LIKE ignores the case of ASCII letters, and for a domain without
\* quotes or wildcards the pattern matches when one element of the list,
\* as stored, is the domain.
DomainLike(domains, domain) ==
    \E i \in DOMAIN domains : Lower(domains[i]) = Lower(domain)

\* The ids of a set in ascending order: the order of the table scan, which is
\* the order of insertion.
RECURSIVE Ascending(_)
Ascending(ids) ==
    IF ids = {}
      THEN <<>>
      ELSE LET least == CHOOSE i \in ids : \A j \in ids : i <= j
           IN <<least>> \o Ascending(ids \ {least})

\* storage.py 526-536: the rows with an embedding, of the domain if one is
\* given.
Candidates(d, domain) ==
    LET Selected(i) ==
            /\ i \in DOMAIN d.embedding
            /\ domain = <<>> \/ DomainLike(d.insights[i].domains, domain)
    IN SelectSeq(Ascending(DOMAIN d.insights), Selected)

\* A SearchResult only for the rows that point the way of the query.
ScoredAboveZero(d, query_embedding, rows) ==
    LET Kept(i) == Dot(query_embedding, d.embedding[i]) > 0
        kept == SelectSeq(rows, Kept)
    IN [k \in DOMAIN kept |->
           [id |-> kept[k], score |-> Score(query_embedding, d.embedding[kept[k]])]]

\* storage.py 538-546: a SearchResult for every row unless the query or the
\* stored embedding has norm zero.
Scored(d, query_embedding, rows) ==
    LET Kept(i) ==
            /\ Dot(query_embedding, query_embedding) # 0
            /\ Dot(d.embedding[i], d.embedding[i]) # 0
        kept == SelectSeq(rows, Kept)
    IN [k \in DOMAIN kept |->
           [id |-> kept[k], score |-> Score(query_embedding, d.embedding[kept[k]])]]

\* The results left in the order of the scan.
SortedByScoreUnsorted(results) == results

\* storage.py 548: results.sort(key=score, reverse=True), a stable sort: a
\* result goes behind those whose score is at least its own.
RECURSIVE SortedByScore(_)
SortedByScore(results) ==
    IF results = <<>>
      THEN <<>>
      ELSE LET n == Len(results)
               r == results[n]
               sorted == SortedByScore(SubSeq(results, 1, n - 1))
               AtLeast(s) == ScoreAtLeast(s.score, r.score)
               ahead == Len(SelectSeq(sorted, AtLeast))
           IN SubSeq(sorted, 1, ahead) \o <<r>> \o SubSeq(sorted, ahead + 1, Len(sorted))

\* storage.py 549: results[:limit], for a limit that is not negative.
Truncated(results, limit) ==
    SubSeq(results, 1, IF limit < Len(results) THEN limit ELSE Len(results))

SearchResults(d, query_embedding, limit, domain) ==
    Truncated(SortedByScore(Scored(d, query_embedding, Candidates(d, domain))), limit)

\* search_by_embedding(): reads the rows and returns the ranked results.
SearchByEmbedding(query_embedding, limit, domain) ==
    /\ StoreIdle
    /\ "insights" \in db.schema
    /\ returned' = [op |-> "search_by_embedding", query_embedding |-> query_embedding,
                    limit |-> limit, domain |-> domain,
                    results |-> SearchResults(db, query_embedding, limit, domain)]
    /\ UNCHANGED <<db, conn, initialize, uuids>>
    /\ UNCHANGED <<taskVars, pipeVars, toolVars>>

\* ---------------------------------------- insight store: knowledge bases

\* models.py KbChunk as insert_kb_chunk() stores it: the knowledge base, the
\* text, the five tag lists, the confidence and the page it came from.
KbChunk(kb_id, text, normalized_text, frame, domains, entities, problems, resolutions, contexts, confidence, source_url) ==
    [kb_id |-> kb_id, text |-> text, normalized_text |-> normalized_text,
     frame |-> frame, domains |-> domains, entities |-> entities,
     problems |-> problems, resolutions |-> resolutions, contexts |-> contexts,
     confidence |-> confidence, source_url |-> source_url]

KbChunkMembership(kb_chunk_id, subject_id) ==
    [kb_chunk_id |-> kb_chunk_id, subject_id |-> subject_id]

\* _upsert_kb_chunk_subjects: as _upsert_subjects, with the memberships in
\* kb_chunk_subjects.
RECURSIVE UpsertKbChunkTagged(_, _, _)
UpsertKbChunkTagged(d, chunk_id, pairs) ==
    IF pairs = <<>>
      THEN d
      ELSE LET kind == Head(pairs).kind
               name == SubjectName(Head(pairs).item)
           IN IF name = <<>>
                THEN UpsertKbChunkTagged(d, chunk_id, Tail(pairs))
                ELSE UpsertKbChunkTagged(
                         [d EXCEPT
                            !.subjects = InsertOrIgnoreSubject(@, SubjectRow(kind, name)),
                            !.kb_chunk_subjects =
                                InsertOrIgnore(@, KbChunkMembership(chunk_id,
                                                                    SubjectId(kind, name)))],
                         chunk_id, Tail(pairs))

UpsertKbChunkSubjects(d, chunk_id, chunk) == UpsertKbChunkTagged(d, chunk_id, TagItems(chunk))

\* storage.py 738-763: the kb_chunks row with its embedding column, then the
\* subjects, committed together.  The connection does not turn foreign keys
\* on, so kb_id is not checked against knowledge_bases.
InsertedKbChunk(d, chunk_id, chunk, embedding) ==
    UpsertKbChunkSubjects(
        [d EXCEPT !.kb_chunks = @ @@ (chunk_id :> [chunk |-> chunk, embedding |-> embedding])],
        chunk_id, chunk)

\* insert_kb_chunk(): the chunk carries no id, uuid4() gives a fresh one.
InsertKbChunk(chunk, embedding) ==
    /\ StoreIdle
    /\ "kb_chunks" \in db.schema
    /\ uuids < MaxKbIds
    /\ uuids' = uuids + 1
    /\ db' = InsertedKbChunk(db, uuids + 1, chunk, embedding)
    /\ returned' = [op |-> "insert_kb_chunk", id |-> uuids + 1, found |-> TRUE,
                    row |-> NoInsight]
    /\ UNCHANGED <<conn, initialize>>
    /\ UNCHANGED <<taskVars, pipeVars, toolVars>>

\* storage.py 184: name TEXT NOT NULL UNIQUE.
KbNameTaken(d, name) == \E kb_id \in DOMAIN d.knowledge_bases : d.knowledge_bases[kb_id].name = name

\* create_kb(): uuid4() gives the id; the INSERT fails with IntegrityError
\* when the name is taken.
CreateKb(name) ==
    /\ StoreIdle
    /\ "knowledge_bases" \in db.schema
    /\ uuids < MaxKbIds
    /\ uuids' = uuids + 1
    /\ IF KbNameTaken(db, name)
         THEN /\ db' = db
              /\ returned' = [op |-> "create_kb", err |-> "IntegrityError"]
         ELSE /\ db' = [db EXCEPT !.knowledge_bases = @ @@ ((uuids + 1) :> [name |-> name])]
              /\ returned' = [op |-> "create_kb", id |-> uuids + 1, found |-> TRUE,
                              row |-> NoInsight]
    /\ UNCHANGED <<conn, initialize>>
    /\ UNCHANGED <<taskVars, pipeVars, toolVars>>

\* storage.py 727: delete_kb() turns foreign keys on before its DELETE.
DeleteKbForeignKeys == TRUE

\* DELETE FROM knowledge_bases with the chunks left where they are.
DeletedKbRowOnly(d, kb_id, foreign_keys) ==
    [d EXCEPT !.knowledge_bases =
                  [k \in DOMAIN d.knowledge_bases \ {kb_id} |-> d.knowledge_bases[k]]]

\* DELETE FROM knowledge_bases WHERE id = ? on a connection with foreign
\* keys on or off: with them on, a deleted row takes its chunks along
\* (kb_chunks.kb_id ON DELETE CASCADE), and these their subject memberships
\* (kb_chunk_subjects.kb_chunk_id ON DELETE CASCADE).
DeletedKb(d, kb_id, foreign_keys) ==
    LET cascaded ==
            IF foreign_keys /\ kb_id \in DOMAIN d.knowledge_bases
              THEN {c \in DOMAIN d.kb_chunks : d.kb_chunks[c].chunk.kb_id = kb_id}
              ELSE {}
        Keeps(m) == m.kb_chunk_id \notin cascaded
    IN [d EXCEPT
          !.knowledge_bases =
              [k \in DOMAIN d.knowledge_bases \ {kb_id} |-> d.knowledge_bases[k]],
          !.kb_chunks = [c \in DOMAIN d.kb_chunks \ cascaded |-> d.kb_chunks[c]],
          !.kb_chunk_subjects = SelectSeq(@, Keeps)]

\* delete_kb(): True when a row was deleted.
DeleteKb(kb_id) ==
    /\ StoreIdle
    /\ "knowledge_bases" \in db.schema
    /\ db' = DeletedKb(db, kb_id, DeleteKbForeignKeys)
    /\ returned' = [op |-> "delete_kb", id |-> kb_id,
                    found |-> kb_id \in DOMAIN db.knowledge_bases, row |-> NoInsight]
    /\ UNCHANGED <<conn, initialize, uuids>>
    /\ UNCHANGED <<taskVars, pipeVars, toolVars>>

\* -------------------------------------------------------------- normalizer

\* models.py Frame
Frame == {"causal", "constraint", "pattern", "equivalence", "taxonomy", "procedure"}

\* An LLM answer that is not JSON: _parse_json raises on it.
NotJson == [normalized |-> "", frame |-> "none", entities |-> <<>>, problems |-> <<>>,
            resolutions |-> <<>>, contexts |-> <<>>]

\* What the client answers to CLASSIFY_PROMPT for each atom: the canonical
\* sentence, its frame and the subjects found in it.
ClassifyResponse(atom) ==
    CASE atom = "jwt" ->
           [normalized |-> "JWT decoding requires non-null token input",
            frame |-> "constraint", entities |-> <<<<"j", "w", "t">>>>, problems |-> <<<<"a", "p", "i">>>>,
            resolutions |-> <<>>, contexts |-> <<>>]
      [] atom = "has" ->
           [normalized |-> "The system has multiple components for processing",
            frame |-> "causal", entities |-> <<<<"a", "p", "i">>, <<"j", "w", "t">>>>, problems |-> <<>>,
            resolutions |-> <<>>, contexts |-> <<>>]
      [] atom = "kind" ->
           [normalized |-> "Lighting is a type of component",
            frame |-> "taxonomy", entities |-> <<>>, problems |-> <<>>,
            resolutions |-> <<>>, contexts |-> <<<<"a", "p", "i">>>>]
      [] OTHER -> NotJson

\* len(normalized_text)
TextLength(normalized_text) ==
    CASE normalized_text = "JWT decoding requires non-null token input" -> 42
      [] normalized_text = "The system has multiple components for processing" -> 49
      [] normalized_text = "Lighting is a type of component" -> 31
      [] OTHER -> 0

\* re.match of one of generic_patterns: "... is a type of ...",
\* "... can be ...", "... has ...".
GenericPhrase(normalized_text) ==
    normalized_text \in { "The system has multiple components for processing",
                          "Lighting is a type of component" }

\* frame_weights, in tenths.
FrameWeight(frame) ==
    CASE frame = "procedure" -> 9
      [] frame = "taxonomy" -> 6
      [] frame = "equivalence" -> 8
      [] OTHER -> 10

Min(a, b) == IF a <= b THEN a ELSE b
Max(a, b) == IF a >= b THEN a ELSE b

\* compute_confidence(): the product of four factors, each a number of
\* tenths, so the score is a number of ten-thousandths (10000 is 1.0).
compute_confidence(insight) ==
    LET length == IF TextLength(insight.normalized_text) < 20 THEN 3
                  ELSE IF TextLength(insight.normalized_text) < 40 THEN 7
                  ELSE 10
        generic == IF GenericPhrase(insight.normalized_text) THEN 5 ELSE 10
        info_count == Len(insight.entities) + Len(insight.problems)
                         + Len(insight.resolutions)
        density == IF info_count = 0 THEN 4
                   ELSE IF info_count = 1 THEN 7
                   ELSE 10
        score == length * generic * density * FrameWeight(insight.frame)
    IN Max(0, Min(10000, score))

\* models.py Insight as normalize() builds it.
NormalizedInsight(atom, classification, domains, source) ==
    LET insight == [text |-> atom, normalized_text |-> classification.normalized,
                    frame |-> classification.frame,
                    entities |-> classification.entities,
                    problems |-> classification.problems,
                    resolutions |-> classification.resolutions,
                    contexts |-> classification.contexts,
                    domains |-> domains, source |-> source]
    IN insight @@ [confidence |-> compute_confidence(insight)]

\* The classify() results in the order the calls completed.
GatherAsCompleted(classifications, order) ==
    [k \in 1..Len(order) |-> classifications[order[k]]]

\* asyncio.gather(): the results in the order of the awaitables passed,
\* whatever the order they completed in.
Gather(classifications, order) ==
    [i \in 1..Len(order) |-> classifications[i]]

\* for atom, classification in zip(atoms, classifications)
Zipped(atoms, classifications, domains, source) ==
    [i \in 1..Min(Len(atoms), Len(classifications)) |->
        NormalizedInsight(atoms[i], classifications[i], domains, source)]

\* normalize(text, source, domains) is entered.
Normalizing(text, source, domains) ==
    [NoNormalize EXCEPT !.pc = "decompose", !.text = text, !.source = source,
                        !.domains = domains]

NormalizeCall(text, source, domains) ==
    /\ normalize.pc \in {"idle", "returned", "raised"}
    /\ ingest.pc \in {"idle", "returned", "raised"}
    /\ normalize' = Normalizing(text, source, domains)
    /\ UNCHANGED <<ingest, environ>>
    /\ UNCHANGED <<taskVars, storeVars, toolVars>>

\* decompose() answers with a list of atoms; one classify() per atom is
\* handed to gather().
Decompose(atoms) ==
    /\ normalize.pc = "decompose"
    /\ normalize' = [normalize EXCEPT !.pc = "gather", !.atoms = atoms]
    /\ UNCHANGED <<ingest, environ>>
    /\ UNCHANGED <<taskVars, storeVars, toolVars>>

\* decompose() answers with something that is not JSON.
DecomposeRaises ==
    /\ normalize.pc = "decompose"
    /\ normalize' = [normalize EXCEPT !.pc = "raised"]
    /\ UNCHANGED <<ingest, environ>>
    /\ UNCHANGED <<taskVars, storeVars, toolVars>>

\* The classify() call of the i-th atom completes.  The client of the
\* sources is the blocking one, which completes the calls in the order they
\* were started; any order is allowed here, as with a client that suspends.
ClassifyReturns(i) ==
    /\ normalize.pc = "gather"
    /\ i \in DOMAIN normalize.atoms
    /\ i \notin DOMAIN normalize.classifications
    /\ ClassifyResponse(normalize.atoms[i]) # NotJson
    /\ normalize' = [normalize EXCEPT
                        !.classifications = @ @@ (i :> ClassifyResponse(normalize.atoms[i])),
                        !.order = Append(@, i)]
    /\ UNCHANGED <<ingest, environ>>
    /\ UNCHANGED <<taskVars, storeVars, toolVars>>

\* The classify() call of the i-th atom raises: gather() hands the exception
\* on to normalize().
ClassifyRaises(i) ==
    /\ normalize.pc = "gather"
    /\ i \in DOMAIN normalize.atoms
    /\ i \notin DOMAIN normalize.classifications
    /\ ClassifyResponse(normalize.atoms[i]) = NotJson
    /\ normalize' = [normalize EXCEPT !.pc = "raised"]
    /\ UNCHANGED <<ingest, environ>>
    /\ UNCHANGED <<taskVars, storeVars, toolVars>>

\* Every classify() has completed: the results are zipped to the atoms.
NormalizeReturn ==
    /\ normalize.pc = "gather"
    /\ DOMAIN normalize.classifications = DOMAIN normalize.atoms
    /\ normalize' = [normalize EXCEPT
                        !.pc = "returned",
                        !.insights = Zipped(normalize.atoms,
                                            Gather(normalize.classifications, normalize.order),
                                            normalize.domains, normalize.source)]
    /\ UNCHANGED <<ingest, environ>>
    /\ UNCHANGED <<taskVars, storeVars, toolVars>>

\* ---------------------------------------------------------------- ingestor

\* models.py CrawledPage; the markdown is kept as its lines.
CrawledPage(url, markdown) == [url |-> url, markdown |-> markdown]

\* line.startswith("# ")
StartsH1(line) == line \in {"# Title"}
\* line.startswith("## ")
StartsH2(line) == line \in {"## A", "## B"}
\* any(marker in line for marker in footer_markers)
HasFooterMarker(line) == line \in {"Did you find this page useful?"}
\* A line of whitespace only.
BlankLine(line) == line \in {"", "  "}

\* str.strip() of the joined lines, as far as whole lines go: blank lines at
\* either end are dropped.
RECURSIVE StripLines(_)
StripLines(lines) ==
    IF lines = <<>> THEN <<>>
    ELSE IF BlankLine(Head(lines)) THEN StripLines(Tail(lines))
    ELSE IF BlankLine(lines[Len(lines)]) THEN StripLines(SubSeq(lines, 1, Len(lines) - 1))
    ELSE lines

\* clean_markdown(): the text from the first H1 heading (from the top when
\* there is none) up to the first footer marker after it.
clean_markdown(lines) ==
    LET h1 == {i \in DOMAIN lines : StartsH1(lines[i])}
        start == IF h1 = {} THEN 1 ELSE CHOOSE i \in h1 : \A j \in h1 : i <= j
        footers == {i \in DOMAIN lines : i >= start /\ HasFooterMarker(lines[i])}
        end == IF footers = {} THEN Len(lines) + 1
               ELSE CHOOSE i \in footers : \A j \in footers : i <= j
    IN StripLines(SubSeq(lines, start, end - 1))

\* The sections of split_markdown(): a new one starts at each H2 heading.
RECURSIVE SplitSections(_, _, _)
SplitSections(lines, current, sections) ==
    IF lines = <<>>
      THEN IF current # <<>> THEN Append(sections, current) ELSE sections
      ELSE IF StartsH2(Head(lines)) /\ current # <<>>
             THEN SplitSections(Tail(lines), <<Head(lines)>>, Append(sections, current))
             ELSE SplitSections(Tail(lines), Append(current, Head(lines)), sections)

NotEmpty(chunk) == chunk # <<>>

\* split_markdown(): one chunk per section, stripped, the empty ones left
\* out.  Sections stay below max_chars here, so none is split further.
split_markdown(lines) ==
    IF StripLines(lines) = <<>>
      THEN <<>>
      ELSE LET sections == SplitSections(lines, <<>>, <<>>)
           IN SelectSeq([i \in DOMAIN sections |-> StripLines(sections[i])], NotEmpty)

\* float() of the values MIN_CONFIDENCE_THRESHOLD is given, in
\* ten-thousandths.
Float(value) ==
    CASE value = "0.0" -> 0
      [] value = "0.5" -> 5000
      [] value = "0.9" -> 9000

\* float(os.environ.get("MIN_CONFIDENCE_THRESHOLD", "0.5"))
MinThreshold(env) ==
    Float(IF "MIN_CONFIDENCE_THRESHOLD" \in DOMAIN env
            THEN env["MIN_CONFIDENCE_THRESHOLD"]
            ELSE "0.5")

\* The insights of confidence above the threshold only.
RECURSIVE FilteredAbove(_, _)
FilteredAbove(all_insights, min_threshold) ==
    IF all_insights = <<>> THEN <<>>
    ELSE IF Head(all_insights).confidence > min_threshold
           THEN <<Head(all_insights)>> \o FilteredAbove(Tail(all_insights), min_threshold)
           ELSE FilteredAbove(Tail(all_insights), min_threshold)

\* Every insight, whatever its confidence.
FilteredNothing(all_insights, min_threshold) == all_insights

\* [i for i in all_insights if i.confidence >= min_threshold]
RECURSIVE Filtered(_, _)
Filtered(all_insights, min_threshold) ==
    IF all_insights = <<>> THEN <<>>
    ELSE IF Head(all_insights).confidence >= min_threshold
           THEN <<Head(all_insights)>> \o Filtered(Tail(all_insights), min_threshold)
           ELSE Filtered(Tail(all_insights), min_threshold)

\* The vector the embedding engine gives a text.
Embed(text) ==
    IF text = "JWT decoding requires non-null token input" THEN <<1, 0>> ELSE <<0, 1>>

\* embed_batch(): one vector per text, in the order of the texts.
EmbedBatch(texts) == [i \in DOMAIN texts |-> Embed(texts[i])]

\* The KbChunk ingest_page() builds of an insight.
ChunkOfInsight(kb_id, insight, url) ==
    KbChunk(kb_id, insight.text, insight.normalized_text, insight.frame,
            insight.domains, insight.entities, insight.problems, insight.resolutions,
            insight.contexts, insight.confidence, url)

\* ingest_page(kb_id, page) is entered: the page is cleaned and split into
\* chunks.
Ingesting(kb_id, page) ==
    [NoIngest EXCEPT !.pc = "normalize", !.kb_id = kb_id, !.url = page.url,
                     !.text_chunks = split_markdown(clean_markdown(page.markdown)),
                     !.chunk = 1]

\* The most ids the chunks of a page can take.
PageIds(page) == Len(split_markdown(clean_markdown(page.markdown))) * MaxAtoms

\* ingest_page() called on its own.
IngestPage(kb_id, page) ==
    /\ ingest.pc \in {"idle", "returned", "raised"}
    /\ normalize.pc \in {"idle", "returned", "raised"}
    /\ ingest_crawl.pc \in {"idle", "returned", "raised"}
    /\ StoreIdle
    /\ uuids + PageIds(page) <= MaxKbIds
    /\ ingest' = Ingesting(kb_id, page)
    /\ UNCHANGED <<normalize, environ>>
    /\ UNCHANGED <<taskVars, storeVars, toolVars>>

\* The next chunk is handed to normalizer.normalize().
IngestNormalize ==
    /\ ingest.pc = "normalize"
    /\ ingest.chunk <= Len(ingest.text_chunks)
    /\ ingest' = [ingest EXCEPT !.pc = "await"]
    /\ normalize' = Normalizing(ingest.text_chunks[ingest.chunk], "", <<>>)
    /\ UNCHANGED environ
    /\ UNCHANGED <<taskVars, storeVars, toolVars>>

\* normalize() returned: all_insights.extend(insights).
IngestExtend ==
    /\ ingest.pc = "await"
    /\ normalize.pc = "returned"
    /\ ingest' = [ingest EXCEPT !.pc = "normalize", !.chunk = @ + 1,
                                !.all_insights = @ \o normalize.insights]
    /\ UNCHANGED <<normalize, environ>>
    /\ UNCHANGED <<taskVars, storeVars, toolVars>>

\* normalize() raised and the exception leaves ingest_page().
IngestAbort ==
    /\ ingest.pc = "await"
    /\ normalize.pc = "raised"
    /\ ingest' = [ingest EXCEPT !.pc = "raised"]
    /\ UNCHANGED <<normalize, environ>>
    /\ UNCHANGED <<taskVars, storeVars, toolVars>>

\* normalize() raised: the failure is logged and the loop goes on.
IngestSkip ==
    /\ ingest.pc = "await"
    /\ normalize.pc = "raised"
    /\ ingest' = [ingest EXCEPT !.pc = "normalize", !.chunk = @ + 1,
                                !.skipped = @ \cup {ingest.chunk}]
    /\ UNCHANGED <<normalize, environ>>
    /\ UNCHANGED <<taskVars, storeVars, toolVars>>

\* After the last chunk: nothing collected returns 0; otherwise the
\* threshold is read and the insights below it are dropped, and nothing
\* kept returns 0.
IngestFilter ==
    /\ ingest.pc = "normalize"
    /\ ingest.chunk > Len(ingest.text_chunks)
    /\ IF ingest.all_insights = <<>>
         THEN ingest' = [ingest EXCEPT !.pc = "returned", !.ret = 0]
         ELSE LET min_threshold == MinThreshold(environ)
                  filtered == Filtered(ingest.all_insights, min_threshold)
              IN ingest' = [ingest EXCEPT
                               !.min_threshold = min_threshold,
                               !.filtered = filtered,
                               !.pc = IF filtered = <<>> THEN "returned" ELSE "embed",
                               !.ret = 0]
    /\ UNCHANGED <<normalize, environ>>
    /\ UNCHANGED <<taskVars, storeVars, toolVars>>

\* The texts of the atoms as they were decomposed.
TextsToEmbedRaw(all_insights) ==
    [i \in DOMAIN all_insights |-> all_insights[i].text]

\* texts_to_embed = [i.normalized_text for i in all_insights]
TextsToEmbed(all_insights) ==
    [i \in DOMAIN all_insights |-> all_insights[i].normalized_text]

\* One embed_batch() call with the normalized texts of the kept insights.
IngestEmbed ==
    /\ ingest.pc = "embed"
    /\ LET texts_to_embed == TextsToEmbed(ingest.filtered)
       IN ingest' = [ingest EXCEPT !.pc = "store",
                                   !.embed_batch = Append(@, texts_to_embed),
                                   !.embeddings = EmbedBatch(texts_to_embed),
                                   !.stored = 0]
    /\ UNCHANGED <<normalize, environ>>
    /\ UNCHANGED <<taskVars, storeVars, toolVars>>

\* embed_batch() raises (the embedding service fails): so does ingest_page().
IngestEmbedRaises ==
    /\ ingest.pc = "embed"
    /\ LET texts_to_embed == TextsToEmbed(ingest.filtered)
       IN ingest' = [ingest EXCEPT !.pc = "raised",
                                   !.embed_batch = Append(@, texts_to_embed)]
    /\ UNCHANGED <<normalize, environ>>
    /\ UNCHANGED <<taskVars, storeVars, toolVars>>

\* The next kept insight goes to insert_kb_chunk() with its embedding; on a
\* database without the kb_chunks table the INSERT raises.
IngestStore ==
    /\ ingest.pc = "store"
    /\ ingest.stored < Len(ingest.filtered)
    /\ IF "kb_chunks" \in db.schema
         THEN /\ uuids < MaxKbIds
              /\ uuids' = uuids + 1
              /\ db' = InsertedKbChunk(
                          db, uuids + 1,
                          ChunkOfInsight(ingest.kb_id, ingest.filtered[ingest.stored + 1],
                                         ingest.url),
                          ingest.embeddings[ingest.stored + 1])
              /\ returned' = [op |-> "insert_kb_chunk", id |-> uuids + 1, found |-> TRUE,
                              row |-> NoInsight]
              /\ ingest' = [ingest EXCEPT !.stored = @ + 1]
         ELSE /\ ingest' = [ingest EXCEPT !.pc = "raised"]
              /\ UNCHANGED <<db, returned, uuids>>
    /\ UNCHANGED <<conn, initialize>>
    /\ UNCHANGED <<normalize, environ>>
    /\ UNCHANGED <<taskVars, toolVars>>

\* Every kept insight is stored: ingest_page() returns their number.
IngestReturn ==
    /\ ingest.pc = "store"
    /\ ingest.stored = Len(ingest.filtered)
    /\ ingest' = [ingest EXCEPT !.pc = "returned", !.ret = ingest.stored]
    /\ UNCHANGED <<normalize, environ>>
    /\ UNCHANGED <<taskVars, storeVars, toolVars>>

\* MIN_CONFIDENCE_THRESHOLD is set in the environment, between two pages.
SetEnv(value) ==
    /\ ingest.pc \in {"idle", "returned", "raised"}
    /\ environ' = [name \in DOMAIN environ \cup {"MIN_CONFIDENCE_THRESHOLD"} |->
                      IF name = "MIN_CONFIDENCE_THRESHOLD" THEN value ELSE environ[name]]
    /\ UNCHANGED <<normalize, ingest>>
    /\ UNCHANGED <<taskVars, storeVars, toolVars>>

\* on_progress(i + 1, len(pages), page.url) for the page at position
\* current, counted from 0.
ProgressArgsFromZero(current, pages) == <<current - 1, Len(pages), pages[current].url>>

\* on_progress(i + 1, len(pages), page.url) for the page at position
\* current, counted from 1.
ProgressArgs(current, pages) == <<current, Len(pages), pages[current].url>>

RECURSIVE PagesIds(_)
PagesIds(pages) == IF pages = <<>> THEN 0 ELSE PageIds(Head(pages)) + PagesIds(Tail(pages))

\* ingest_crawl(kb_id, url, on_progress=...): crawl_service.crawl() answers
\* with the pages of the site.
IngestCrawl(kb_id, pages, has_progress) ==
    /\ ingest_crawl.pc \in {"idle", "returned", "raised"}
    /\ ingest.pc \in {"idle", "returned", "raised"}
    /\ normalize.pc \in {"idle", "returned", "raised"}
    /\ StoreIdle
    /\ uuids + PagesIds(pages) <= MaxKbIds
    /\ ingest_crawl' = [NoIngestCrawl EXCEPT !.pc = "page", !.kb_id = kb_id,
                                             !.pages = pages, !.page = 1,
                                             !.has_progress = has_progress]
    /\ UNCHANGED <<hook, app>>
    /\ UNCHANGED <<taskVars, storeVars, pipeVars>>

\* ingest_crawl() on an ingestor without a crawl service: RuntimeError.
IngestCrawlNoService ==
    /\ ingest_crawl.pc \in {"idle", "returned", "raised"}
    /\ ingest.pc \in {"idle", "returned", "raised"}
    /\ ingest_crawl' = [NoIngestCrawl EXCEPT !.pc = "raised"]
    /\ UNCHANGED <<hook, app>>
    /\ UNCHANGED <<taskVars, storeVars, pipeVars>>

\* The loop takes the next page: the callback, when there is one, is called
\* and ingest_page() is entered.
CrawlPage ==
    /\ ingest_crawl.pc = "page"
    /\ ingest_crawl.page <= Len(ingest_crawl.pages)
    /\ ingest_crawl' =
          [ingest_crawl EXCEPT
              !.pc = "await",
              !.on_progress = IF ingest_crawl.has_progress
                                THEN Append(@, ProgressArgs(ingest_crawl.page,
                                                            ingest_crawl.pages))
                                ELSE @]
    /\ ingest' = Ingesting(ingest_crawl.kb_id, ingest_crawl.pages[ingest_crawl.page])
    /\ UNCHANGED <<normalize, environ, hook, app>>
    /\ UNCHANGED <<taskVars, storeVars>>

\* ingest_page() returned: total_chunks += chunks_stored.
CrawlPageDone ==
    /\ ingest_crawl.pc = "await"
    /\ ingest.pc = "returned"
    /\ ingest_crawl' = [ingest_crawl EXCEPT !.pc = "page", !.page = @ + 1,
                                            !.total_chunks = @ + ingest.ret]
    /\ UNCHANGED <<hook, app>>
    /\ UNCHANGED <<taskVars, storeVars, pipeVars>>

\* ingest_page() raised: so does ingest_crawl().
CrawlPageRaised ==
    /\ ingest_crawl.pc = "await"
    /\ ingest.pc = "raised"
    /\ ingest_crawl' = [ingest_crawl EXCEPT !.pc = "raised"]
    /\ UNCHANGED <<hook, app>>
    /\ UNCHANGED <<taskVars, storeVars, pipeVars>>

\* After the last page: return total_chunks.
CrawlReturn ==
    /\ ingest_crawl.pc = "page"
    /\ ingest_crawl.page > Len(ingest_crawl.pages)
    /\ ingest_crawl' = [ingest_crawl EXCEPT !.pc = "returned",
                                            !.ret = ingest_crawl.total_chunks]
    /\ UNCHANGED <<hook, app>>
    /\ UNCHANGED <<taskVars, storeVars, pipeVars>>

\* ------------------------------------------------------- validator scripts

\* A validator is one process: it reads stdin, may print JSON objects to
\* stdout and ends with an exit code.  stdout is the sequence of objects
\* printed; text written to stderr is not part of it.

\* emit(): print one object, return 0 if allow else 1; main's return value
\* is the exit code (sys.exit(main())).
emit(allow, code, reason) ==
    [stdout |-> <<[allow |-> allow, code |-> code, reason |-> reason]>>,
     exit |-> IF allow THEN 0 ELSE 1]

\* An exception nobody catches: the interpreter prints the traceback to
\* stderr and ends with exit code 1.
Traceback == [stdout |-> <<>>, exit |-> 1]

\* sys.exit(code) with nothing printed to stdout.
SysExit(code) == [stdout |-> <<>>, exit |-> code]

RECURSIVE RStripSlashes(_)
RStripSlashes(p) ==
    IF p # <<>> /\ p[Len(p)] = "/" THEN RStripSlashes(SubSeq(p, 1, Len(p) - 1)) ELSE p

\* str(PurePosixPath(p)) of a non-empty p: empty and "." segments go, ".."
\* stays, a leading "/" stays, exactly two leading slashes stay two, and the
\* empty path is ".".
PurePosixPath(p) ==
    LET body == Joined(KeptSegments(Segments(p, <<>>)))
        root == IF StartsWith(p, <<"/", "/">>) /\ ~StartsWith(p, <<"/", "/", "/">>)
                  THEN <<"/", "/">>
                  ELSE IF Head(p) = "/" THEN <<"/">> ELSE <<>>
    IN IF root \o body = <<>> THEN <<".">> ELSE root \o body

\* on_lock_update.py and check_lock_overlap.py, normalize_resource.
normalize_resource(value) ==
    LET resource == ForwardSlashes(StripRight(StripLeft(value)))
    IN IF resource = <<>>
         THEN <<>>
         ELSE IF PurePosixPath(resource) # <<"/">>
                THEN RStripSlashes(PurePosixPath(resource))
                ELSE PurePosixPath(resource)

\* overlaps() comparing for equality only.
overlapsEqualOnly(a, b) == a = b

overlaps(a, b) == a = b \/ StartsWith(a, b \o <<"/">>) \/ StartsWith(b, a \o <<"/">>)

\* validate_lock_entry: task_id is a non-empty string (resource is a string
\* and active a bool in every entry of LockEntries).
validate_lock_entry(lock) == lock.task_id # ""

\* normalize_locks: the first entry that is invalid or whose resource
\* normalizes to "" ends the run with R-LK-001.
normalize_locks(locks) ==
    IF \E i \in DOMAIN locks :
           ~validate_lock_entry(locks[i]) \/ normalize_resource(locks[i].resource) = <<>>
      THEN [locks |-> <<>>, code |-> "R-LK-001"]
      ELSE [locks |-> [i \in DOMAIN locks |->
                          [locks[i] EXCEPT !.resource = normalize_resource(@)]],
            code |-> "none"]

IsActive(lock) == lock.active

\* find_conflicts: TRUE (conflict-free) unless two entries i < j of different
\* tasks overlap.
find_conflicts(active_locks) ==
    ~\E i \in DOMAIN active_locks, j \in DOMAIN active_locks :
        /\ i < j
        /\ active_locks[i].task_id # active_locks[j].task_id
        /\ overlaps(active_locks[i].resource, active_locks[j].resource)

\* on_lock_update.py main: json.load(sys.stdin) is not guarded.
on_lock_update(stdin) ==
    IF stdin.json \in {"empty", "malformed"}
      THEN Traceback
      ELSE IF stdin.json # "list"
             THEN emit(FALSE, "R-LK-001", "Lock table must be an array")
             ELSE LET normalized == normalize_locks(stdin.locks)
                  IN IF normalized.code # "none"
                       THEN emit(FALSE, normalized.code, "invalid lock entry")
                       ELSE IF ~find_conflicts(SelectSeq(normalized.locks, IsActive))
                              THEN emit(FALSE, "R-LK-001",
                                        "Overlapping active locks detected")
                              ELSE emit(TRUE, "OK", "lock table is conflict-free")

\* check_lock_overlap.py main: the payload is an object with a "locks" list.
check_lock_overlap(stdin) ==
    IF stdin.json = "empty"
      THEN emit(FALSE, "SCHEMA_INVALID", "empty stdin payload")
      ELSE IF stdin.json = "malformed"
        THEN emit(FALSE, "SCHEMA_INVALID", "invalid JSON")
        ELSE IF stdin.json # "dict"
          THEN emit(FALSE, "SCHEMA_INVALID", "top-level payload must be object")
          ELSE IF "locks" \notin stdin.fields
            THEN emit(FALSE, "MISSING_REQUIRED_INPUT", "locks must be an array")
            ELSE IF \E i \in DOMAIN stdin.locks :
                        \/ stdin.locks[i].task_id = ""
                        \/ StripLeft(stdin.locks[i].resource) = <<>>
              THEN emit(FALSE, "SCHEMA_INVALID", "invalid lock entry")
              ELSE IF ~find_conflicts(SelectSeq(
                           [i \in DOMAIN stdin.locks |->
                              [stdin.locks[i] EXCEPT !.resource = normalize_resource(@)]],
                           IsActive))
                THEN emit(FALSE, "LOCK_CONFLICT", "overlapping active locks detected")
                ELSE emit(TRUE, "OK", "no active lock overlap")

\* A key the entry does not have: dict.get() returns None.
None == "None"

\* Python truthiness of a str | None.
Truthy(x) == x \notin {None, ""}

\* validate_required_fields: `field not in payload`, on a list as well.
validate_required_fields(stdin) ==
    stdin.json = "dict"
        /\ {"task_id", "acceptance_check", "required_criteria"} \subseteq stdin.fields

\* find_missing_criterion: the first required criterion no entry names, or None.
find_missing_criterion(payload) ==
    LET missing == {i \in DOMAIN payload.required_criteria :
                        \A e \in DOMAIN payload.acceptance_check :
                            payload.acceptance_check[e].criterion
                                # payload.required_criteria[i]}
    IN IF missing = {}
         THEN None
         ELSE payload.required_criteria[CHOOSE i \in missing : \A k \in missing : i <= k]

\* find_failed_criterion: the criterion of the first entry whose status is
\* not "pass", or None.
find_failed_criterion(payload) ==
    LET failed == {e \in DOMAIN payload.acceptance_check :
                       payload.acceptance_check[e].status # "pass"}
    IN IF failed = {}
         THEN None
         ELSE payload.acceptance_check[CHOOSE e \in failed : \A k \in failed : e <= k].criterion

\* find_missing_evidence: the criterion of the first entry whose evidence is
\* not a non-empty string, or None.
find_missing_evidence(payload) ==
    LET empty == {e \in DOMAIN payload.acceptance_check :
                      ~Truthy(payload.acceptance_check[e].evidence)}
    IN IF empty = {}
         THEN None
         ELSE payload.acceptance_check[CHOOSE e \in empty : \A k \in empty : e <= k].criterion

\* pre_complete.py main: json.load(sys.stdin) is not guarded, and each
\* finding is tested by its truthiness.
pre_complete(stdin) ==
    IF stdin.json \in {"empty", "malformed"}
      THEN Traceback
      ELSE IF ~validate_required_fields(stdin)
        THEN emit(FALSE, "R-PC-001", "Missing required field")
        ELSE IF Truthy(find_missing_criterion(stdin))
          THEN emit(FALSE, "R-PC-001", "Missing acceptance criterion")
          ELSE IF Truthy(find_failed_criterion(stdin))
            THEN emit(FALSE, "R-PC-002", "Acceptance failed")
            ELSE IF Truthy(find_missing_evidence(stdin))
              THEN emit(FALSE, "R-PC-003", "Missing evidence for criterion")
              ELSE emit(TRUE, "OK", "Validation passed")

\* pre_write_scope_check.py, is_always_allowed.
is_always_allowed(rel_path) ==
    \/ StartsWith(rel_path, <<".", "o", "r", "c", "h", "e", "s", "t", "r", "a", "t",
                              "o", "r", "/", "o", "u", "t", "p", "u", "t", "s", "/">>)
    \/ StartsWith(rel_path, <<"w", "o", "r", "k", "l", "o", "g", "s", "/">>)

\* is_orchestrator_allowed: ORCHESTRATOR_ALLOWED = (".claude/", "docs/").
is_orchestrator_allowed(rel_path) ==
    \/ StartsWith(rel_path, <<".", "c", "l", "a", "u", "d", "e", "/">>)
    \/ StartsWith(rel_path, <<"d", "o", "c", "s", "/">>)

matches_scope(rel_path, scope) ==
    \/ rel_path = scope
    \/ scope # <<>> /\ scope[Len(scope)] = "/" /\ StartsWith(rel_path, scope)
    \/ ~(scope # <<>> /\ scope[Len(scope)] = "/") /\ StartsWith(rel_path, scope \o <<"/">>)

\* pre_write_scope_check.py main: every allowed write is sys.exit(0) with
\* nothing printed, every denial is a {"decision": "deny"} object on stderr
\* and sys.exit(2).  file_path is relative, so normalize_to_relative returns
\* it; locks_file is .orchestrator/active_locks.json as found under cwd, and
\* its scopes are the resources of its active entries.
pre_write_scope_check(stdin) ==
    IF stdin.json \in {"empty", "malformed"}
      THEN SysExit(0)
      ELSE IF ~({"cwd", "file_path"} \subseteq stdin.fields)
        THEN SysExit(0)
        ELSE IF is_always_allowed(stdin.file_path)
          THEN SysExit(0)
          ELSE IF ~stdin.locks_file.exists
            THEN IF is_orchestrator_allowed(stdin.file_path) THEN SysExit(0) ELSE SysExit(2)
            ELSE IF stdin.locks_file.active_scopes = <<>>
              THEN SysExit(2)
              ELSE IF ~\E s \in DOMAIN stdin.locks_file.active_scopes :
                          matches_scope(stdin.file_path, stdin.locks_file.active_scopes[s])
                THEN SysExit(2)
                ELSE SysExit(0)

\* One run of a script: the process reads stdin and ends.
Ran(script, stdin, out) ==
    [script |-> script, stdin |-> stdin, stdout |-> out.stdout, exit |-> out.exit]

RunOnLockUpdate(stdin) ==
    /\ hook' = Ran("on_lock_update", stdin, on_lock_update(stdin))
    /\ UNCHANGED <<ingest_crawl, app>>
    /\ UNCHANGED <<taskVars, storeVars, pipeVars>>

RunCheckLockOverlap(stdin) ==
    /\ hook' = Ran("check_lock_overlap", stdin, check_lock_overlap(stdin))
    /\ UNCHANGED <<ingest_crawl, app>>
    /\ UNCHANGED <<taskVars, storeVars, pipeVars>>

RunPreComplete(stdin) ==
    /\ hook' = Ran("pre_complete", stdin, pre_complete(stdin))
    /\ UNCHANGED <<ingest_crawl, app>>
    /\ UNCHANGED <<taskVars, storeVars, pipeVars>>

RunPreWriteScopeCheck(stdin) ==
    /\ hook' = Ran("pre_write_scope_check", stdin, pre_write_scope_check(stdin))
    /\ UNCHANGED <<ingest_crawl, app>>
    /\ UNCHANGED <<taskVars, storeVars, pipeVars>>

\* ----------------------------------------------------------- application

\* server.py, MemoryAccessApp: the tool handlers over the store.  A handler
\* ends by returning a value or by raising; app holds which.

\* server.py 70-73: update() returned None for a missing id, and the handler
\* returns a sentence in both cases.
UpdateInsightResult(found) ==
    [op |-> "update_insight", raised |-> "none",
     value |-> IF found THEN "Updated insight." ELSE "Insight not found."]

\* update_insight(insight_id, confidence): confidence is <<>> for None and
\* <<c>> for a value c; kwargs holds it when given.  The insights rows of
\* the model have no confidence column, so the UPDATE leaves them as they are.
AppUpdateInsight(insight_id, confidence) ==
    /\ StoreIdle
    /\ "insights" \in db.schema
    /\ LET kwargs == IF confidence = <<>> THEN <<>> ELSE [confidence |-> confidence[1]]
           found == insight_id \in DOMAIN db.insights
       IN /\ db' = IF found /\ DOMAIN Updates(kwargs) # {}
                     THEN [db EXCEPT !.insights[insight_id] = UpdatedRow(@, Updates(kwargs))]
                     ELSE db
          /\ returned' = [op |-> "update", id |-> insight_id, found |-> found,
                          row |-> Got(db', insight_id).row]
          /\ app' = UpdateInsightResult(found)
    /\ UNCHANGED <<conn, initialize, uuids>>
    /\ UNCHANGED <<ingest_crawl, hook>>
    /\ UNCHANGED <<taskVars, pipeVars>>

\* ------------------------------------------------- migration runner

\* What the statements of a migration body do to the connection:
\*   script   executescript(): commits what is pending, then runs the CREATE
\*            ... IF NOT EXISTS statements in autocommit mode;
\*   alter    ALTER TABLE ADD COLUMN for each column that is missing;
\*   backfill the body's INSERT OR IGNORE statements (an implicit
\*            transaction, pending until the next commit);
\*   commit   db.commit().
Statement(op, creates) == [op |-> op, creates |-> creates]

\* storage.py 239: self._migrations, with the statements of each body
\* (_migrate_001 115-176, _migrate_002 40-54, _migrate_003 57-94,
\* _migrate_004 97-112, _migrate_005 179-233).
Migrations ==
    << [version |-> 1,
        body |-> << Statement("script", {"subjects", "insight_subjects"}),
                    Statement("commit", {}), Statement("backfill", {}),
                    Statement("commit", {}) >>,
        description |-> "Add subjects table and insight_subjects join table with backfill"],
       [version |-> 2,
        body |-> << Statement("alter", {"insights.problems", "insights.resolutions",
                                        "insights.contexts"}),
                    Statement("commit", {}) >>,
        description |-> "Add problems, resolutions, contexts columns to insights"],
       [version |-> 3,
        body |-> << Statement("script", {"insight_relations"}),
                    Statement("commit", {}), Statement("backfill", {}),
                    Statement("commit", {}) >>,
        description |-> "Add insight_relations table with shared-subject backfill"],
       [version |-> 4,
        body |-> << Statement("script", {"subject_relations"}), Statement("commit", {}) >>,
        description |-> "Add subject_relations table for subject hierarchy"],
       [version |-> 5,
        body |-> << Statement("script", {"knowledge_bases", "kb_chunks",
                                         "kb_chunk_subjects", "kb_insight_relations"}),
                    Statement("commit", {}) >>,
        description |-> "Add knowledge_bases, kb_chunks, kb_chunk_subjects, kb_insight_relations tables"] >>

RegisteredVersions == {Migrations[i].version : i \in DOMAIN Migrations}

Migration(version) ==
    Migrations[CHOOSE i \in DOMAIN Migrations : Migrations[i].version = version]

\* storage.py 11-37: SCHEMA and SCHEMA_VERSIONS, CREATE TABLE IF NOT EXISTS.
\* A new insights table has the extraction columns from the start.
Bootstrapped(d) ==
    [d EXCEPT !.schema =
        (IF "insights" \in @
           THEN @
           ELSE @ \cup {"insights", "insights.problems", "insights.resolutions",
                        "insights.contexts"})
          \cup {"schema_versions"}]

\* SELECT version FROM schema_versions LIMIT 1, NULL read as 0.
CurrentVersionOfFirstRow(d) ==
    IF d.schema_versions = <<>> THEN 0 ELSE d.schema_versions[1].version

\* storage.py 249-251: SELECT MAX(version) FROM schema_versions, NULL read as 0.
CurrentVersion(d) ==
    IF d.schema_versions = <<>>
      THEN 0
      ELSE CHOOSE v \in {d.schema_versions[i].version : i \in DOMAIN d.schema_versions} :
               \A i \in DOMAIN d.schema_versions : d.schema_versions[i].version <= v

\* The test letting the current version through again.
IsPendingFromCurrent(version, current_version) == version >= current_version

\* storage.py 254: if version > current_version
IsPending(version, current_version) == version > current_version

\* storage.py 138-173: _migrate_001's backfill, the domains and entities of
\* every insights row, in rowid order.
RECURSIVE BackfillSubjects(_, _)
BackfillSubjects(d, insight_id) ==
    IF insight_id > MaxInsights
      THEN d
      ELSE IF insight_id \notin DOMAIN d.insights
             THEN BackfillSubjects(d, insight_id + 1)
             ELSE BackfillSubjects(
                      UpsertTagged(d, insight_id,
                                   Tagged("domain", d.insights[insight_id].domains)
                                     \o Tagged("entity", d.insights[insight_id].entities)),
                      insight_id + 1)

\* storage.py 78-84: the number of subjects two insights share.
SharedCount(d, a, b) ==
    Cardinality({s \in {d.insight_subjects[i].subject_id : i \in DOMAIN d.insight_subjects} :
                    /\ Membership(a, s) \in
                          {d.insight_subjects[i] : i \in DOMAIN d.insight_subjects}
                    /\ Membership(b, s) \in
                          {d.insight_subjects[i] : i \in DOMAIN d.insight_subjects}})

InsightRelation(from_id, to_id, weight) ==
    [from_id |-> from_id, to_id |-> to_id, relation_type |-> "shared_subject",
     weight |-> weight]

\* INSERT OR IGNORE INTO insight_relations: primary key (from_id, to_id,
\* relation_type).
InsertOrIgnoreRelation(tbl, row) ==
    IF \E i \in DOMAIN tbl :
           /\ tbl[i].from_id = row.from_id
           /\ tbl[i].to_id = row.to_id
           /\ tbl[i].relation_type = row.relation_type
      THEN tbl
      ELSE Append(tbl, row)

\* storage.py 78-92: _migrate_003's backfill, one row per pair a < b of
\* insights sharing a subject.
RECURSIVE BackfillRelations(_, _)
BackfillRelations(d, k) ==
    IF k > MaxInsights * MaxInsights
      THEN d
      ELSE LET a == ((k - 1) \div MaxInsights) + 1
               b == ((k - 1) % MaxInsights) + 1
           IN IF a < b /\ SharedCount(d, a, b) >= 1
                THEN BackfillRelations(
                         [d EXCEPT !.insight_relations =
                              InsertOrIgnoreRelation(@, InsightRelation(a, b,
                                                                     SharedCount(d, a, b)))],
                         k + 1)
                ELSE BackfillRelations(d, k + 1)

Backfilled(d, version) ==
    IF version = 1
      THEN BackfillSubjects(d, 1)
      ELSE IF version = 3 THEN BackfillRelations(d, 1) ELSE d

\* initialize(): aiosqlite.connect() opens the connection.
InitializeCall ==
    /\ StoreIdle
    /\ conn' = db
    /\ initialize' = [NoInitialize EXCEPT !.pc = "connected", !.before = db]
    /\ UNCHANGED <<db, returned, uuids>>
    /\ UNCHANGED <<taskVars, pipeVars, toolVars>>

\* storage.py 244-251: the bootstrap scripts, commit, and the read of the
\* current version.
Bootstrap ==
    /\ initialize.pc = "connected"
    /\ conn' = Bootstrapped(conn)
    /\ db' = Bootstrapped(conn)
    /\ initialize' = [initialize EXCEPT !.pc = "loop",
                                        !.current_version = CurrentVersion(Bootstrapped(conn))]
    /\ UNCHANGED <<returned, uuids>>
    /\ UNCHANGED <<taskVars, pipeVars, toolVars>>

\* storage.py 253-254: the next entry of sorted(self._migrations), whose
\* body is called when it is pending; past the last entry the call returns
\* and the connection is closed.
LoopNext ==
    /\ initialize.pc = "loop"
    /\ LET rest == {v \in RegisteredVersions : v > initialize.version}
       IN IF rest = {}
            THEN /\ initialize' = [initialize EXCEPT !.pc = "returned"]
                 /\ conn' = EmptyDb
            ELSE LET version == CHOOSE v \in rest : \A u \in rest : v <= u
                 IN /\ initialize' =
                         IF IsPending(version, initialize.current_version)
                           THEN [initialize EXCEPT !.pc = "body", !.version = version,
                                                   !.step = 1, !.ran = Append(@, version),
                                                   !.at_body = db]
                           ELSE [initialize EXCEPT !.version = version]
                    /\ conn' = conn
    /\ UNCHANGED <<db, returned, uuids>>
    /\ UNCHANGED <<taskVars, pipeVars, toolVars>>

\* The effect of one statement of a body on the connection's view.
Executed(d, version, statement) ==
    IF statement.op \in {"script", "alter"}
      THEN [d EXCEPT !.schema = @ \cup statement.creates]
      ELSE IF statement.op = "backfill" THEN Backfilled(d, version) ELSE d

\* A statement of the body runs.  What a script, a commit, or an ALTER
\* outside a transaction leaves in the connection is in the file from then on.
BodyStep ==
    /\ initialize.pc = "body"
    /\ initialize.step <= Len(Migration(initialize.version).body)
    /\ LET statement == Migration(initialize.version).body[initialize.step]
       IN /\ conn' = Executed(conn, initialize.version, statement)
          /\ db' = IF \/ statement.op \in {"script", "commit"}
                      \/ (statement.op = "alter" /\ conn = db)
                     THEN Executed(conn, initialize.version, statement)
                     ELSE db
    /\ initialize' = [initialize EXCEPT !.step = @ + 1]
    /\ UNCHANGED <<returned, uuids>>
    /\ UNCHANGED <<taskVars, pipeVars, toolVars>>

\* The exception of a failing body swallowed: the loop goes on with the next
\* migration.
BodyFailsAndContinues ==
    /\ initialize.pc = "body"
    /\ initialize.step <= Len(Migration(initialize.version).body)
    /\ initialize' = [initialize EXCEPT !.pc = "loop"]
    /\ conn' = conn
    /\ UNCHANGED <<db, returned, uuids>>
    /\ UNCHANGED <<taskVars, pipeVars, toolVars>>

\* A statement of the body raises.  Nothing in initialize() catches it: the
\* connection is closed on the way out and what was pending is lost.
BodyFails ==
    /\ initialize.pc = "body"
    /\ initialize.step <= Len(Migration(initialize.version).body)
    /\ initialize' = [initialize EXCEPT !.pc = "failed"]
    /\ conn' = EmptyDb
    /\ UNCHANGED <<db, returned, uuids>>
    /\ UNCHANGED <<taskVars, pipeVars, toolVars>>

SchemaVersion(version, description) == [version |-> version, description |-> description]

\* storage.py 255-261: the body has returned its description; the version
\* row is inserted and committed.  version is the table's primary key.
Record ==
    /\ initialize.pc = "body"
    /\ initialize.step > Len(Migration(initialize.version).body)
    /\ IF \E i \in DOMAIN conn.schema_versions :
              conn.schema_versions[i].version = initialize.version
         THEN /\ initialize' = [initialize EXCEPT !.pc = "failed"]
              /\ conn' = EmptyDb
              /\ db' = db
         ELSE LET recorded == [conn EXCEPT !.schema_versions =
                                  Append(@, SchemaVersion(initialize.version,
                                             Migration(initialize.version).description))]
              IN /\ conn' = recorded
                 /\ db' = recorded
                 /\ initialize' = [initialize EXCEPT !.pc = "loop"]
    /\ UNCHANGED <<returned, uuids>>
    /\ UNCHANGED <<taskVars, pipeVars, toolVars>>

\* ---------------------------------------------------- store specifications

TagPy == <<"P", "y">>
TagPySpaced == <<" ", "p", "y", " ">>
TagMl == <<"m", "l">>
TagBlank == <<" ">>

\* Insights handed to insert().
InsightInputs ==
    { Insight("a", <<TagPy, TagPySpaced>>, <<TagPy>>, <<>>, <<>>, <<>>, ""),
      Insight("b", <<TagBlank, TagMl>>, <<>>, <<TagMl>>, <<TagPy>>, <<>>, "debug"),
      Insight("c", <<>>, <<>>, <<>>, <<>>, <<>>, "") }

\* Git contexts handed to insert(), with the second insight only.
GitInputs == {NoGit, GitContext(<<"r">>, <<"P">>, <<>>, <<" ">>, <<>>)}

InsertInputs ==
    {<<insight, git>> \in InsightInputs \X GitInputs : git = NoGit \/ insight.text = "b"}

\* Keyword arguments handed to update().
UpdateInputs ==
    { [domains |-> <<TagMl>>], [source |-> "review"], [embedding |-> "x"] }

InsightIds == 1..MaxInsights

\* A store that is opened (initialize() runs to its end) and then used.
NextStore ==
    \/ initialize.pc = "idle" /\ InitializeCall
    \/ Bootstrap
    \/ LoopNext
    \/ BodyStep
    \/ Record
    \/ \E input \in InsertInputs : Insert(input[1], input[2])
    \/ \E insight_id \in InsightIds : Get(insight_id)
    \/ \E insight_id \in InsightIds, kwargs \in UpdateInputs :
          UpdateInsight(insight_id, kwargs)
    \/ \E insight_id \in InsightIds : Delete(insight_id)

SpecStore == Init /\ [][NextStore]_vars

\* A store whose migrations may fail, with insights inserted between the opens.
NextMigrate ==
    \/ InitializeCall
    \/ Bootstrap
    \/ LoopNext
    \/ BodyStep
    \/ BodyFails
    \/ Record
    \/ \E insight \in InsightInputs : Insert(insight, NoGit)

SpecMigrate == Init /\ [][NextMigrate]_vars

\* Insights and git contexts for a store that is opened and then only
\* inserted into: tag lists that pair up under several rules, with repeated
\* and blank tags, and git contexts that are complete, partial and blank.
RelateInsights ==
    InsightInputs \cup
      { Insight("d", <<>>, <<TagBlank>>, <<TagPy, TagMl>>, <<TagPy, TagMl, TagBlank>>,
                <<TagMl>>, "") }

RelateGits ==
    GitInputs \cup
      { GitContext(<<"r">>, <<"P">>, <<"m">>, <<"l">>, <<"y">>),
        GitContext(<<>>, <<"P">>, <<"M">>, <<>>, <<>>) }

RelateInputs == RelateInsights \X RelateGits

NextRelate ==
    \/ initialize.pc = "idle" /\ InitializeCall
    \/ Bootstrap
    \/ LoopNext
    \/ BodyStep
    \/ Record
    \/ \E input \in RelateInputs : Insert(input[1], input[2])

SpecRelate == Init /\ [][NextRelate]_vars

\* Embeddings handed to insert() and queries handed to search_by_embedding():
\* the unit vectors of the ranked-search test (the query scaled by ten), a
\* vector pointing away, and the zero vector.
Embeddings == {NoEmbedding, <<1, 0>>, <<0, 1>>, <<-1, 0>>, <<0, 0>>}

Queries == {<<9, 1>>, <<0, 1>>, <<0, 0>>}

\* The insight with the domains "Py" and " py " and the one without tags,
\* each with some of the embeddings.
SearchInputs ==
    {<<insight, embedding>> \in InsightInputs \X Embeddings :
        \/ insight.text = "a" /\ embedding \in {<<1, 0>>, <<0, 1>>, <<0, 0>>}
        \/ insight.text = "c" /\ embedding \in {NoEmbedding, <<0, 1>>, <<-1, 0>>}}

\* None and a domain given in lowercase.
SearchDomains == {<<>>, <<"p", "y">>}

Limits == 0..(MaxInsights + 1)

\* A store that is opened, filled and searched.
NextSearch ==
    \/ initialize.pc = "idle" /\ InitializeCall
    \/ Bootstrap
    \/ LoopNext
    \/ BodyStep
    \/ Record
    \/ \E input \in SearchInputs : InsertWithEmbedding(input[1], input[2])
    \/ \E insight_id \in InsightIds : Delete(insight_id)
    \/ \E query_embedding \in Queries, limit \in Limits, domain \in SearchDomains :
          SearchByEmbedding(query_embedding, limit, domain)

SpecSearch == Init /\ [][NextSearch]_vars

\* Names handed to create_kb().
KbNames == {"docs", "api"}

\* Chunks handed to insert_kb_chunk(): any id given out so far as kb_id,
\* one chunk with an entity and one with a problem.
KbChunkInputs(kb_id) ==
    { KbChunk(kb_id, "x", "", "causal", <<>>, <<TagPy>>, <<>>, <<>>, <<>>, 10000, "u"),
      KbChunk(kb_id, "y", "", "causal", <<>>, <<>>, <<TagMl>>, <<>>, <<>>, 10000, "u") }

KbIds == 1..MaxKbIds

\* A store that is opened and then holds knowledge bases and their chunks.
NextKb ==
    \/ initialize.pc = "idle" /\ InitializeCall
    \/ Bootstrap
    \/ LoopNext
    \/ BodyStep
    \/ Record
    \/ \E name \in KbNames : CreateKb(name)
    \/ \E kb_id \in 1..uuids : \E chunk \in KbChunkInputs(kb_id) :
          InsertKbChunk(chunk, <<1, 0>>)
    \/ \E kb_id \in KbIds : DeleteKb(kb_id)

SpecKb == Init /\ [][NextKb]_vars

\* Atoms decompose() answers with; the client has no JSON answer to the
\* classification of "bad".
Atoms == {"jwt", "has", "kind", "bad"}

\* Answers of decompose(): lists of different atoms.
AtomLists ==
    UNION { {atoms \in [1..n -> Atoms] :
                \A i, j \in 1..n : i # j => atoms[i] # atoms[j]} : n \in 0..MaxAtoms }

\* Arguments handed to normalize().
NormalizeInputs ==
    { [text |-> <<"## A", "a">>, source |-> "", domains |-> <<>>],
      [text |-> <<"b">>, source |-> "review", domains |-> <<TagPy>>] }

\* A normalizer called time after time.
NextNormalize ==
    \/ \E input \in NormalizeInputs :
          NormalizeCall(input.text, input.source, input.domains)
    \/ \E atoms \in AtomLists : Decompose(atoms)
    \/ DecomposeRaises
    \/ \E i \in 1..MaxAtoms : ClassifyReturns(i)
    \/ \E i \in 1..MaxAtoms : ClassifyRaises(i)
    \/ NormalizeReturn

SpecNormalize == Init /\ [][NextNormalize]_vars

\* Pages handed to ingest_page(): an empty one, one of blank lines, one
\* with navigation above its title, one of two sections with a footer.
Pages ==
    { CrawledPage("u0", <<>>),
      CrawledPage("u1", <<"  ", "">>),
      CrawledPage("u2", <<"nav", "# Title", "intro">>),
      CrawledPage("u3", <<"## A", "a", "", "## B", "b",
                          "Did you find this page useful?", "more">>) }

\* Values MIN_CONFIDENCE_THRESHOLD is set to.
EnvValues == {"0.0", "0.9"}

\* The knowledge base pages are ingested into.
IngestKbIds == {1}

\* An ingestor over a store that is opened first or not at all, ingesting
\* page after page.
NextIngest ==
    \/ initialize.pc = "idle" /\ ingest.pc = "idle" /\ InitializeCall
    \/ Bootstrap
    \/ LoopNext
    \/ BodyStep
    \/ Record
    \/ \E value \in EnvValues : SetEnv(value)
    \/ \E kb_id \in IngestKbIds : \E page \in Pages : IngestPage(kb_id, page)
    \/ IngestNormalize
    \/ \E atoms \in AtomLists : Decompose(atoms)
    \/ DecomposeRaises
    \/ \E i \in 1..MaxAtoms : ClassifyReturns(i)
    \/ \E i \in 1..MaxAtoms : ClassifyRaises(i)
    \/ NormalizeReturn
    \/ IngestExtend
    \/ IngestSkip
    \/ IngestFilter
    \/ IngestEmbed
    \/ IngestEmbedRaises
    \/ IngestStore
    \/ IngestReturn

SpecIngest == Init /\ [][NextIngest]_vars

\* Pages crawl() finds: an empty one, one of one chunk, one of two chunks.
CrawlPages == {page \in Pages : page.url \in {"u0", "u2", "u3"}}

\* Answers of decompose() while crawling: atoms the client classifies.
CrawlAtomLists ==
    {atoms \in AtomLists : \A i \in DOMAIN atoms : atoms[i] \in {"jwt", "kind"}}

\* Answers of crawl(): lists of up to MaxPages pages.
PageLists == UNION { [1..n -> CrawlPages] : n \in 0..MaxPages }

\* An ingestor crawling site after site into a store that was opened first,
\* with and without a progress callback.
NextCrawl ==
    \/ initialize.pc = "idle" /\ InitializeCall
    \/ Bootstrap
    \/ LoopNext
    \/ BodyStep
    \/ Record
    \/ /\ initialize.pc = "returned"
       /\ \E kb_id \in IngestKbIds : \E pages \in PageLists : \E has_progress \in BOOLEAN :
             IngestCrawl(kb_id, pages, has_progress)
    \/ initialize.pc = "returned" /\ IngestCrawlNoService
    \/ CrawlPage
    \/ IngestNormalize
    \/ \E atoms \in CrawlAtomLists : Decompose(atoms)
    \/ DecomposeRaises
    \/ \E i \in 1..MaxAtoms : ClassifyReturns(i)
    \/ NormalizeReturn
    \/ IngestExtend
    \/ IngestSkip
    \/ IngestFilter
    \/ IngestEmbed
    \/ IngestEmbedRaises
    \/ IngestStore
    \/ IngestReturn
    \/ CrawlPageDone
    \/ CrawlPageRaised
    \/ CrawlReturn

SpecCrawl == Init /\ [][NextCrawl]_vars

\* Validator inputs.  Resources of lock entries: "s", " s/", "s/a", "s/./a",
\* "sa", "/", "/s" and " " (empty once stripped).
HookResources ==
    { <<"s">>,
      <<" ", "s", "/">>,
      <<"s", "/", "a">>,
      <<"s", "/", ".", "/", "a">>,
      <<"s", "a">>,
      <<"/">>,
      <<"/", "s">>,
      <<" ">> }

LockEntries ==
    [task_id : {"", "T-1", "T-2"}, resource : HookResources, active : BOOLEAN]

RECURSIVE SeqsUpTo(_, _)
SeqsUpTo(S, n) ==
    IF n = 0
      THEN {<<>>}
      ELSE SeqsUpTo(S, n - 1) \cup
           {Append(s, x) : s \in {t \in SeqsUpTo(S, n - 1) : Len(t) = n - 1}, x \in S}

\* What is not a JSON document, and the JSON documents of the wrong type.
BadStdin == {[json |-> j] : j \in {"empty", "malformed"}}

LockTables ==
    BadStdin \cup {[json |-> "dict"]}
        \cup {[json |-> "list", locks |-> l] : l \in SeqsUpTo(LockEntries, MaxHookLocks)}

LockPayloads ==
    BadStdin \cup {[json |-> "list"], [json |-> "dict", fields |-> {}]}
        \cup {[json |-> "dict", fields |-> {"locks"}, locks |-> l] :
                 l \in SeqsUpTo(LockEntries, MaxHookLocks)}

AcceptanceEntries ==
    [criterion : {None, "", "c1"}, status : {"pass", "fail"}, evidence : {None, "", "ok"}]

CompletionPayloads ==
    BadStdin \cup {[json |-> "list"], [json |-> "dict", fields |-> {"task_id"}]}
        \cup {[json |-> "dict",
               fields |-> {"task_id", "acceptance_check", "required_criteria"},
               acceptance_check |-> a, required_criteria |-> r] :
                 a \in SeqsUpTo(AcceptanceEntries, MaxChecks),
                 r \in {<<>>, <<"c1">>, <<"">>, <<"c1", "c2">>}}

\* Relative paths "worklogs/n", "docs/n" and "s/a"; scopes "s", "s/" and "sa".
WritePaths ==
    { <<"w", "o", "r", "k", "l", "o", "g", "s", "/", "n">>,
      <<"d", "o", "c", "s", "/", "n">>,
      <<"s", "/", "a">> }

WriteScopes == { <<>>, << <<"s">> >>, << <<"s", "/">> >>, << <<"s", "a">> >> }

WriteInputs ==
    BadStdin \cup {[json |-> "dict", fields |-> {}], [json |-> "dict", fields |-> {"cwd"}]}
        \cup {[json |-> "dict", fields |-> {"cwd", "file_path"}, file_path |-> p,
               locks_file |-> f] :
                 p \in WritePaths,
                 f \in {[exists |-> FALSE, active_scopes |-> <<>>]}
                          \cup {[exists |-> TRUE, active_scopes |-> s] : s \in WriteScopes}}

\* Every run is a process of its own, started on one input.
NextHooks ==
    \/ hook = NoHook /\ \E stdin \in LockTables : RunOnLockUpdate(stdin)
    \/ hook = NoHook /\ \E stdin \in LockPayloads : RunCheckLockOverlap(stdin)
    \/ hook = NoHook /\ \E stdin \in CompletionPayloads : RunPreComplete(stdin)
    \/ hook = NoHook /\ \E stdin \in WriteInputs : RunPreWriteScopeCheck(stdin)

SpecHooks == Init /\ [][NextHooks]_vars

\* Calls of transition() that take a task to in_progress and on to a
\* terminal state, with the version the task has then or a stale one.
LedgerRequests ==
    {Request(t, from, to, ev) :
        t \in TaskIds,
        from \in {"todo", "in_progress"},
        to \in {"in_progress", "done", "canceled"},
        ev \in 0..1}

\* Resource lists of the assign_locks calls: "s" or "sa".
LedgerResourceLists == {<<r>> : r \in {<<"s">>, <<"s", "a">>}}

\* A single caller: create_task, assign_locks, release_locks and transition
\* in any order, one call at a time.
NextLedger ==
    \/ \E t \in TaskIds : Quiet /\ CreateTask(t)
    \/ \E t \in TaskIds, rs \in LedgerResourceLists : Quiet /\ AssignLocks(t, rs)
    \/ \E t \in TaskIds : Quiet /\ ReleaseLocks(t)
    \/ \E r \in LedgerRequests : Quiet /\ Issue("w1", r)
    \/ \E w \in Workers : Update(w)
    \/ \E w \in Workers : InsertEvent(w)
    \/ \E w \in Workers : Commit(w)
    \/ \E w \in Workers : Return(w)

SpecLedger == Init /\ [][NextLedger]_vars

\* Confidence arguments of update_insight: None or 0.9.
ConfidenceInputs == {<<>>, <<9000>>}

\* The application over a store that is opened and filled: update_insight
\* calls for ids the store has and ids it does not have.
NextApp ==
    \/ initialize.pc = "idle" /\ InitializeCall
    \/ Bootstrap
    \/ LoopNext
    \/ BodyStep
    \/ Record
    \/ \E input \in InsertInputs : Insert(input[1], input[2])
    \/ \E insight_id \in InsightIds, confidence \in ConfidenceInputs :
          AppUpdateInsight(insight_id, confidence)

SpecApp == Init /\ [][NextApp]_vars

Next ==
    \/ NextTx
    \/ NextRace
    \/ NextEvents
    \/ NextLock
    \/ NextStore
    \/ NextMigrate
    \/ NextRelate
    \/ NextSearch
    \/ NextKb
    \/ NextNormalize
    \/ NextIngest
    \/ NextCrawl
    \/ NextHooks
    \/ NextLedger
    \/ NextApp

Spec == Init /\ [][Next]_vars

\* ----------------------------------------------------------------- claims

Last(seq) == seq[Len(seq)]

Other(w) == CHOOSE v \in Workers : v # w

\* The two racing calls of C1: both todo -> in_progress at expected_version 0
\* on task t, both returned.
BothRaced(t) ==
    \A w \in Workers :
        pc[w] = "done" /\ req[w] = Request(t, "todo", "in_progress", 0)

\* C1: when two transitions todo -> in_progress with expected_version 0 are
\* issued on the same task, under every interleaving exactly one returns the
\* task (in_progress, version 1) and the other raises ConcurrencyConflict.
C1_ExactlyOneWinner ==
    \A t \in TaskIds :
        BothRaced(t) =>
            \E w \in Workers :
                /\ result[w] = OkResult(TaskRow("in_progress", 1, 0))
                /\ result[Other(w)] = ErrorResult("ConcurrencyConflict")

\* Both calls were in flight together, and the one issued against the lock
\* holder lost.
C1_Witness ==
    \E t \in TaskIds :
        /\ BothRaced(t)
        /\ overlapped["w1"] /\ overlapped["w2"]
        /\ result["w2"].kind = "ok"
        /\ result["w1"].kind = "ConcurrencyConflict"
        /\ tasks[t] = TaskRow("in_progress", 1, 0)

\* C2: the task row and its state_transition event are committed together or
\* not at all: a committed change of a task row comes with exactly one new
\* task_events row carrying the task_id and the from/to states, a new
\* state_transition row comes with the change of its task row, and an attempt
\* that raises leaves both tables as they were.
C2_TransitionAndEventAtomic ==
    [][ /\ \A t \in DOMAIN tasks :
              tasks'[t] # tasks[t] =>
                  task_events' = Append(task_events,
                      EventRow(t, "state_transition", tasks[t].status, tasks'[t].status))
        /\ (/\ Len(task_events') > Len(task_events)
            /\ Last(task_events').event_type = "state_transition")
               => /\ Last(task_events').task_id \in DOMAIN tasks
                  /\ tasks[Last(task_events').task_id].status = Last(task_events').from_state
                  /\ tasks'[Last(task_events').task_id].status = Last(task_events').to_state
        /\ \A w \in Workers :
              (result'[w] # result[w] /\ result'[w].kind \notin {"none", "ok"})
                  => (tasks' = tasks /\ task_events' = task_events)
      ]_vars

\* A call has returned its task: the row is in the new state and the last
\* event is the one of this transition.
C2_Witness ==
    \E w \in Workers :
        /\ pc[w] = "done"
        /\ result[w].kind = "ok"
        /\ tasks[req[w].task_id].status = req[w].to_state
        /\ task_events # <<>>
        /\ Last(task_events) =
             EventRow(req[w].task_id, "state_transition", req[w].from_state, req[w].to_state)

\* C3: a successful transition raises the task's version by exactly one, so
\* the version never decreases and every change of a task row strictly
\* increases it; a failed transition leaves the version as it was.
C3_VersionIncrementsByOne ==
    [][ /\ \A t \in DOMAIN tasks :
              IF tasks'[t] = tasks[t]
                THEN TRUE
                ELSE tasks'[t].version = tasks[t].version + 1
        /\ \A w \in Workers :
              (result'[w] # result[w] /\ result'[w].kind = "ok")
                  => /\ result'[w].version = tasks[req[w].task_id].version + 1
                     /\ tasks'[req[w].task_id].version = result'[w].version
        /\ \A w \in Workers :
              (result'[w] # result[w] /\ result'[w].kind \notin {"none", "ok"})
                  => \A t \in DOMAIN tasks : tasks'[t].version = tasks[t].version
      ]_vars

\* A task has gone through three transitions, the last to blocked.
C3_Witness ==
    \E w \in Workers :
        /\ pc[w] = "done"
        /\ result[w].kind = "ok"
        /\ result[w].version = 2
        /\ result[w].status = "blocked"
        /\ tasks[req[w].task_id].version = 2

\* C4: whatever create_task, assign_locks and release_locks calls were made,
\* two active locks of distinct tasks never hold resources whose normalized
\* paths are equal or where one is a prefix of the other at a "/".
C4_ActiveLocksDisjoint ==
    \A i \in DOMAIN task_locks, j \in DOMAIN task_locks :
        (/\ task_locks[i].active
         /\ task_locks[j].active
         /\ task_locks[i].task_id # task_locks[j].task_id)
            => LET a == Normalized[task_locks[i].resource]
                   b == Normalized[task_locks[j].resource]
               IN /\ a # b
                  /\ ~StartsWith(a, b \o <<"/">>)
                  /\ ~StartsWith(b, a \o <<"/">>)

\* Two tasks hold active locks and a further request has just been refused.
C4_Witness ==
    /\ ret.op = "assign_locks"
    /\ ret.err = "LockConflict"
    /\ \E i \in DOMAIN task_locks, j \in DOMAIN task_locks :
          /\ task_locks[i].active
          /\ task_locks[j].active
          /\ task_locks[i].task_id # task_locks[j].task_id

\* C5: every task in status in_progress has all its declared dependencies in
\* status done, in every state create_task, add_dependencies and transition
\* can reach.
C5_InProgressDependenciesDone ==
    \A t \in DOMAIN tasks :
        tasks[t].status = "in_progress" =>
            \A d \in TaskIds :
                <<t, d>> \in task_dependencies =>
                    (d \in DOMAIN tasks /\ tasks[d].status = "done")

\* The ten pairs of the transition table of section 4.7.
TransitionTable ==
    { <<"todo", "in_progress">>, <<"todo", "canceled">>,
      <<"in_progress", "done">>, <<"in_progress", "failed">>,
      <<"in_progress", "blocked">>, <<"in_progress", "canceled">>,
      <<"blocked", "todo">>, <<"blocked", "canceled">>,
      <<"failed", "todo">>, <<"failed", "canceled">> }

\* The call of w has just ended (with a result or an error).
Ended(w) == pc[w] = "pending" /\ pc'[w] # "pending"

\* The row the CAS of w's call is aimed at is there, in from_state at
\* expected_version.
CasMatched(w) ==
    /\ req[w].task_id \in DOMAIN tasks
    /\ tasks[req[w].task_id].status = req[w].from_state
    /\ tasks[req[w].task_id].version = req[w].expected_version

\* C6: a transition succeeds only for the ten pairs of the table; a call
\* whose (from, to) is any other pair never succeeds, and when it meets the
\* task in from_state at expected_version it is rejected with
\* InvalidTransition; a task that is done or canceled is never changed again.
C6_TransitionTableExhaustive ==
    [][ /\ \A w \in Workers :
              Ended(w) =>
                  /\ pc'[w] = "updated"
                        => <<req[w].from_state, req[w].to_state>> \in TransitionTable
                  /\ (/\ <<req[w].from_state, req[w].to_state>> \notin TransitionTable
                      /\ CasMatched(w))
                        => (pc'[w] = "done" /\ result'[w] = ErrorResult("InvalidTransition"))
        /\ \A w \in Workers :
              (result'[w] # result[w] /\ result'[w].kind = "ok")
                  => <<req[w].from_state, req[w].to_state>> \in TransitionTable
        /\ \A t \in DOMAIN tasks :
              tasks[t].status \in {"done", "canceled"} => tasks'[t] = tasks[t]
      ]_vars

\* A call aimed at a terminal task, matching its status and version, has been
\* rejected with InvalidTransition.
C6_Witness ==
    \E w \in Workers :
        /\ pc[w] = "done"
        /\ result[w].kind = "InvalidTransition"
        /\ CasMatched(w)
        /\ req[w].from_state \in {"done", "canceled"}

\* C7: when the CAS update matches no row, the error follows from the row as
\* it is read again: no such task gives TaskNotFound, a stored version other
\* than expected_version gives ConcurrencyConflict, and otherwise (the stored
\* status is not from_state) InvalidTransition.
C7_ZeroRowErrorByReread ==
    [][ \A w \in Workers :
          (Ended(w) /\ ~CasMatched(w)) =>
              /\ pc'[w] = "done"
              /\ result'[w].kind =
                    IF req[w].task_id \notin DOMAIN tasks
                      THEN "TaskNotFound"
                      ELSE IF tasks[req[w].task_id].version # req[w].expected_version
                             THEN "ConcurrencyConflict"
                             ELSE "InvalidTransition"
      ]_vars

\* Both the version and the status differ from the call's: the version
\* decides, ConcurrencyConflict.
C7_Witness ==
    \E w \in Workers :
        /\ pc[w] = "done"
        /\ result[w].kind = "ConcurrencyConflict"
        /\ req[w].task_id \in DOMAIN tasks
        /\ tasks[req[w].task_id].status # req[w].from_state
        /\ tasks[req[w].task_id].version # req[w].expected_version

\* Normalized paths a and b are equal or one is a prefix of the other at a "/".
PathsOverlap(a, b) ==
    \/ a = b
    \/ StartsWith(a, b \o <<"/">>)
    \/ StartsWith(b, a \o <<"/">>)

\* Row i of locks is active and its resource overlaps resource r.
ActiveOverlap(locks, i, r) ==
    /\ locks[i].active
    /\ PathsOverlap(Normalized[locks[i].resource], Normalized[r])

\* C8: an assign_locks call of task b for a resource that overlaps, on
\* normalized paths, an active lock of a different task raises LockConflict
\* and inserts nothing; no call, whatever its resource list, inserts a lock
\* overlapping an active lock of a different task; and whenever an INSERT of
\* a call is refused the error raised is LockConflict.
C8_OverlapRaisesLockConflict ==
    [][ /\ \A b \in TaskIds, r \in Resources \ {<<>>} :
              (/\ ret'.op = "assign_locks"
               /\ ret'.task_id = b
               /\ \E i \in DOMAIN task_locks :
                     task_locks[i].task_id # b /\ ActiveOverlap(task_locks, i, r)
               /\ AssignLocks(b, <<r>>))
                  => /\ ret'.err = "LockConflict"
                     /\ ret'.resource = r
                     /\ task_locks' = task_locks
        /\ ret'.op = "assign_locks"
              => \A j \in DOMAIN task_locks' :
                    (j > Len(task_locks)) =>
                        \A i \in DOMAIN task_locks :
                            task_locks[i].task_id # ret'.task_id =>
                                ~ActiveOverlap(task_locks, i, task_locks'[j].resource)
        /\ (ret'.op = "assign_locks" /\ ret'.resource # <<>>)
              => ret'.err = "LockConflict"
      ]_vars

\* Task A holds " s/" and the request of another task for ".\s//a" has
\* been refused with LockConflict.
C8_Witness ==
    /\ ret.op = "assign_locks"
    /\ ret.err = "LockConflict"
    /\ ret.resource = <<".", "\\", "s", "/", "/", "a">>
    /\ \E i \in DOMAIN task_locks :
          /\ task_locks[i].active
          /\ task_locks[i].task_id # ret.task_id
          /\ task_locks[i].resource = <<" ", "s", "/">>

\* C9: release_locks(A) leaves no lock of A active, changes no other row and
\* returns the number of rows it deactivated; a later assign_locks of another
\* task on a resource that only released locks overlap succeeds; and a
\* LockConflict is always due to a lock that is active when it is raised.
C9_InactiveLocksNeverBlock ==
    [][ /\ \A a \in TaskIds :
              ReleaseLocks(a) =>
                  /\ Len(task_locks') = Len(task_locks)
                  /\ \A i \in DOMAIN task_locks :
                        IF task_locks[i].task_id = a
                          THEN /\ ~task_locks'[i].active
                               /\ task_locks'[i].resource = task_locks[i].resource
                          ELSE task_locks'[i] = task_locks[i]
                  /\ ret'.count =
                        Cardinality({i \in DOMAIN task_locks :
                                        task_locks[i].task_id = a /\ task_locks[i].active})
        /\ \A b \in TaskIds, r \in Resources \ {<<>>} :
              (/\ ret'.op = "assign_locks"
               /\ ret'.task_id = b
               /\ \A i \in DOMAIN task_locks : ~ActiveOverlap(task_locks, i, r)
               /\ \E i \in DOMAIN task_locks :
                     /\ ~task_locks[i].active
                     /\ task_locks[i].task_id # b
                     /\ PathsOverlap(Normalized[task_locks[i].resource], Normalized[r])
               /\ AssignLocks(b, <<r>>))
                  => /\ ret'.err = "none"
                     /\ ret'.count = 1
                     /\ task_locks' = Append(task_locks, LockRow(b, r, TRUE))
        /\ (ret'.op = "assign_locks" /\ ret'.err = "LockConflict")
              => \E i \in DOMAIN task_locks' : ActiveOverlap(task_locks', i, ret'.resource)
      ]_vars

\* A released lock of one task and, inserted after it, an active lock of
\* another task on an overlapping resource.
C9_Witness ==
    /\ ret.op = "assign_locks"
    /\ ret.err = "none"
    /\ task_locks # <<>>
    /\ Last(task_locks).active
    /\ Last(task_locks).task_id = ret.task_id
    /\ \E i \in DOMAIN task_locks :
          /\ ~task_locks[i].active
          /\ task_locks[i].task_id # ret.task_id
          /\ PathsOverlap(Normalized[task_locks[i].resource],
                          Normalized[Last(task_locks).resource])

\* Every declared dependency of task t is a task in status done.
AllDependenciesDone(t) ==
    \A d \in TaskIds :
        <<t, d>> \in task_dependencies => (d \in DOMAIN tasks /\ tasks[d].status = "done")

\* C10: a todo -> in_progress call that meets the task in todo at
\* expected_version raises DependencyNotMet and leaves the task row as it was
\* while some declared dependency is not done; once all of them are done the
\* same call updates the row, and returns the task in_progress at the next
\* version.
C10_DependencyGate ==
    [][ \A w \in Workers :
          LET t == req[w].task_id
          IN /\ (/\ Ended(w)
                 /\ CasMatched(w)
                 /\ req[w].from_state = "todo"
                 /\ req[w].to_state = "in_progress")
                    => IF AllDependenciesDone(t)
                         THEN /\ pc'[w] = "updated"
                              /\ tasks' = tasks
                              /\ txTasks'[t].status = "in_progress"
                              /\ txTasks'[t].version = tasks[t].version + 1
                         ELSE /\ pc'[w] = "done"
                              /\ result'[w] = ErrorResult("DependencyNotMet")
                              /\ tasks' = tasks
                              /\ tasks'[t].status = "todo"
                              /\ tasks'[t].version = req[w].expected_version
             /\ (pc[w] = "inserted" /\ pc'[w] = "done")
                    => /\ result'[w].kind = "ok"
                       /\ result'[w].status = req[w].to_state
                       /\ result'[w].version = req[w].expected_version + 1
                       /\ tasks'[t].status = req[w].to_state
      ]_vars

\* The task has a declared dependency, the dependency is done, and the
\* todo -> in_progress call has returned the task in_progress.
C10_Witness ==
    \E w \in Workers, d \in TaskIds :
        /\ pc[w] = "done"
        /\ req[w].from_state = "todo"
        /\ req[w].to_state = "in_progress"
        /\ result[w].kind = "ok"
        /\ <<req[w].task_id, d>> \in task_dependencies
        /\ d \in DOMAIN tasks
        /\ tasks[d].status = "done"
        /\ tasks[req[w].task_id].status = "in_progress"

\* The transaction of w's transition() call commits in this step.
Commits(w) == pc[w] = "inserted" /\ pc'[w] = "done"

\* C11: a successful blocked -> todo or failed -> todo transition raises the
\* task's retry_count by one.
C11_RetryCountIncrementsOnReturnToTodo ==
    [][ \A w \in Workers :
            (/\ Commits(w)
             /\ req[w].from_state \in {"blocked", "failed"}
             /\ req[w].to_state = "todo")
                => tasks'[req[w].task_id].retry_count
                     = tasks[req[w].task_id].retry_count + 1
      ]_vars

\* C12: a successful transition raises retry_count by exactly one when the
\* new status is blocked and leaves it as it was for every other new status;
\* the returned record carries the stored value, and no other task's
\* retry_count changes.
C12_RetryCountOnlyOnBlocked ==
    [][ /\ \A w \in Workers :
              Commits(w) =>
                  LET t == req[w].task_id
                  IN /\ tasks'[t].retry_count =
                          tasks[t].retry_count
                            + (IF req[w].to_state = "blocked" THEN 1 ELSE 0)
                     /\ result'[w].retry_count = tasks'[t].retry_count
                     /\ \A u \in DOMAIN tasks \ {t} :
                            tasks'[u].retry_count = tasks[u].retry_count
        /\ (\A w \in Workers : ~Commits(w)) =>
              \A u \in DOMAIN tasks : tasks'[u].retry_count = tasks[u].retry_count
      ]_vars

\* A task was blocked (retry_count 1) and has been put back to todo with the
\* count kept.
C12_Witness ==
    \E w \in Workers :
        /\ pc[w] = "done"
        /\ result[w].kind = "ok"
        /\ req[w].from_state = "blocked"
        /\ result[w].status = "todo"
        /\ result[w].retry_count = 1

\* The rows of a are the first rows of b, unchanged and in the same order.
IsPrefix(a, b) == Len(a) <= Len(b) /\ SubSeq(b, 1, Len(a)) = a

\* C13: task_events is append-only.  Every step keeps the rows already
\* written as they are and in place, adding at most one; append_event adds
\* exactly one row, the one it was given; an UPDATE of an event row is
\* rejected by the database and changes nothing.
C13_EventsAppendOnly ==
    [][ /\ IsPrefix(task_events, task_events')
        /\ Len(task_events') <= Len(task_events) + 1
        /\ \A t \in TaskIds, ty \in EventTypes :
              AppendEvent(t, ty) =>
                  task_events' = Append(task_events, EventRow(t, ty, "none", "none"))
        /\ \A i \in DOMAIN task_events, ty \in EventTypes :
              UpdateEvent(i, ty) =>
                  ret'.err = "IntegrityError" /\ task_events' = task_events
      ]_vars

\* An UPDATE of a row was refused while the log holds an appended row
\* followed by the row of a transition.
C13_Witness ==
    /\ ret.op = "update_event"
    /\ ret.err = "IntegrityError"
    /\ Len(task_events) >= 2
    /\ task_events[1].event_type = "manual_note"
    /\ task_events[2].event_type = "state_transition"

\* The (kind, name) pairs the tags of an insight stand for: strip+lowercase
\* of each tag, the empty ones dropped.
TagSubjects(insight) ==
    {<<TagItems(insight)[i].kind, SubjectName(TagItems(insight)[i].item)>> :
        i \in {j \in DOMAIN TagItems(insight) :
                  SubjectName(TagItems(insight)[j].item) # <<>>}}

\* The subjects table has a row of that name and kind which the insight is a
\* member of.
HasSubject(d, insight_id, kind, name) ==
    \E i \in DOMAIN d.subjects :
        /\ d.subjects[i].name = name
        /\ d.subjects[i].kind = kind
        /\ \E m \in DOMAIN d.insight_subjects :
              d.insight_subjects[m] = Membership(insight_id, d.subjects[i].id)

\* C18: in every state insert, update and delete can reach, every insight
\* has, for each distinct (lowercased name, kind) among its current tags, a
\* subjects row and a membership row.
C18_TaggedInsightsHaveSubjects ==
    \A insight_id \in DOMAIN db.insights :
        \A s \in TagSubjects(db.insights[insight_id]) :
            HasSubject(db, insight_id, s[1], s[2])

\* Every membership row refers to an insight and to a subject that exist.
MembershipsReferenced(d) ==
    \A m \in DOMAIN d.insight_subjects :
        /\ d.insight_subjects[m].insight_id \in DOMAIN d.insights
        /\ \E i \in DOMAIN d.subjects : d.subjects[i].id = d.insight_subjects[m].subject_id

\* C19: delete(id) of a stored insight cascades to the memberships: get(id)
\* then finds nothing, insight_subjects has lost exactly as many rows as the
\* insight has distinct subjects, and no membership row is left without its
\* insight or its subject.
C19_DeleteCascadesToMemberships ==
    [][ \A insight_id \in InsightIds :
            (Delete(insight_id) /\ insight_id \in DOMAIN db.insights)
                => /\ ~Got(db', insight_id).found
                   /\ Len(db'.insight_subjects) =
                        Len(db.insight_subjects)
                          - Cardinality(TagSubjects(db.insights[insight_id]))
                   /\ \A m \in DOMAIN db'.insight_subjects :
                          db'.insight_subjects[m].insight_id # insight_id
                   /\ MembershipsReferenced(db')
      ]_vars

\* The five tag lists of an insight.
Tags(insight) ==
    <<insight.domains, insight.entities, insight.problems, insight.resolutions,
      insight.contexts>>

\* C20: an insert() that follows the insert() of an insight with the same
\* tag lists adds a second insight row and no subjects row, and the subjects
\* table never holds two rows with the same (name, kind).
C20_SecondInsertAddsNoSubjects ==
    [][ /\ \A input \in InsertInputs :
              (/\ Insert(input[1], NoGit)
               /\ returned.op = "insert"
               /\ returned.id \in DOMAIN db.insights
               /\ Tags(db.insights[returned.id]) = Tags(input[1]))
                  => /\ db'.subjects = db.subjects
                     /\ DOMAIN db'.insights = DOMAIN db.insights \cup {returned'.id}
                     /\ returned'.id \notin DOMAIN db.insights
                     /\ Tags(db'.insights[returned'.id]) = Tags(db'.insights[returned.id])
        /\ \A i \in DOMAIN db'.subjects, j \in DOMAIN db'.subjects :
              (db'.subjects[i].name = db'.subjects[j].name
                 /\ db'.subjects[i].kind = db'.subjects[j].kind) => i = j
      ]_vars

\* Two insights with the same, non-empty tags were inserted one after the
\* other and share their subjects.
C20_Witness ==
    /\ returned.op = "insert"
    /\ returned.id = 2
    /\ DOMAIN db.insights = {1, 2}
    /\ Tags(db.insights[1]) = Tags(db.insights[2])
    /\ Cardinality(TagSubjects(db.insights[2])) = 2
    /\ Len(db.subjects) = 2
    /\ Len(db.insight_subjects) = 4

\* The versions recorded in schema_versions.
RecordedVersions(d) == {d.schema_versions[i].version : i \in DOMAIN d.schema_versions}

\* A step of the running initialize() call (not the call being made).
InitializeStep == initialize' # initialize /\ initialize.pc \in {"connected", "loop", "body"}

\* C14: an initialize() on a database whose migrations were all applied by
\* an earlier initialize() calls no migration body, does not fail, and
\* leaves the file as it found it, schema_versions rows included; and no
\* step of any initialize() changes the insights rows.
C14_InitializeIsIdempotent ==
    [][ InitializeStep =>
            /\ db'.insights = db.insights
            /\ RecordedVersions(initialize.before) = RegisteredVersions =>
                  /\ initialize'.ran = <<>>
                  /\ initialize'.pc # "failed"
                  /\ db' = initialize.before
      ]_vars

\* A second initialize() has returned on a migrated store that holds insights.
C14_Witness ==
    /\ initialize.pc = "returned"
    /\ RecordedVersions(initialize.before) = RegisteredVersions
    /\ initialize.ran = <<>>
    /\ DOMAIN db.insights # {}
    /\ db.subjects # <<>>

\* C15: the recorded schema version only grows.  MAX(version) never
\* decreases; the bodies one initialize() calls are in ascending version
\* order; schema_versions holds its rows in ascending order, each version
\* once; and a body is only ever called for a version that is not recorded.
C15_SchemaVersionMonotonic ==
    [][ /\ CurrentVersion(db') >= CurrentVersion(db)
        /\ \A i \in DOMAIN initialize'.ran, j \in DOMAIN initialize'.ran :
              i < j => initialize'.ran[i] < initialize'.ran[j]
        /\ \A i \in DOMAIN db'.schema_versions, j \in DOMAIN db'.schema_versions :
              i < j => db'.schema_versions[i].version < db'.schema_versions[j].version
        /\ (initialize'.pc = "body" /\ initialize'.step = 1)
              => initialize'.version \notin RecordedVersions(db')
      ]_vars

\* After an open that recorded versions 1 and 2 and failed, a later open has
\* applied 3, 4 and 5.
C15_Witness ==
    /\ initialize.pc = "returned"
    /\ initialize.ran = <<3, 4, 5>>
    /\ RecordedVersions(initialize.before) = {1, 2}
    /\ RecordedVersions(db) = RegisteredVersions

\* C16: when a migration body fails part-way, the database file is as it was
\* when the body was called.
C16_FailedBodyLeavesNothing ==
    [][ (initialize.pc = "body" /\ initialize'.pc = "failed")
            => db' = initialize.at_body
      ]_vars

\* C17: a failed body does not advance the recorded version: the open that
\* fails has recorded exactly the registered versions below the failing one,
\* the recorded versions never skip a registered version, and the first body
\* an initialize() calls is the lowest registered version not yet recorded,
\* which after a failure is the one that failed.
C17_FailedMigrationIsRetried ==
    [][ /\ (initialize.pc = "body" /\ initialize'.pc = "failed")
              => /\ db'.schema_versions = db.schema_versions
                 /\ RecordedVersions(db') =
                      {v \in RegisteredVersions : v < initialize.version}
        /\ \A v \in RecordedVersions(db'), u \in RegisteredVersions :
              u < v => u \in RecordedVersions(db')
        /\ (initialize'.pc = "body" /\ initialize'.step = 1)
              => /\ initialize'.version \in RegisteredVersions \ RecordedVersions(db')
                 /\ \A u \in RegisteredVersions \ RecordedVersions(db') :
                        initialize'.version <= u
      ]_vars

\* Migration 3 failed after creating its table; the next open calls it first.
C17_Witness ==
    /\ initialize.pc = "body"
    /\ initialize.ran = <<3>>
    /\ "insight_relations" \in initialize.before.schema
    /\ RecordedVersions(initialize.before) = {1, 2}

\* The kinds of subject a git context creates.
GitKinds == {"repo", "pr", "person", "project", "task"}

\* The name given for a git kind in a call of insert().
GitName(git, kind) ==
    CASE kind = "repo" -> git.repo
      [] kind = "pr" -> git.pr
      [] kind = "person" -> git.author
      [] kind = "project" -> git.project
      [] kind = "task" -> git.task

\* The stored insight j was inserted with the tag lists of insight and with a
\* git context that names the same subjects as git: j is a member of the
\* subject of every kind git gives, and of no subject of a kind it omits.
InsertedBefore(d, j, insight, git) ==
    /\ Tags(d.insights[j]) = Tags(insight)
    /\ \A kind \in GitKinds :
          IF GitName(git, kind) # <<>>
            THEN \E m \in DOMAIN d.insight_subjects :
                    d.insight_subjects[m] =
                        Membership(j, <<kind, SubjectName(GitName(git, kind))>>)
            ELSE \A m \in DOMAIN d.insight_subjects :
                    d.insight_subjects[m].insight_id = j
                        => d.insight_subjects[m].subject_id[1] # kind

\* C21: an insert() of an insight whose tag lists and git context equal those
\* of an insight inserted before adds no subject_relations row, and no row of
\* subject_relations is ever stored twice.
C21_RepeatedInsertAddsNoRelations ==
    [][ /\ \A input \in RelateInputs :
              (/\ Insert(input[1], input[2])
               /\ \E j \in DOMAIN db.insights : InsertedBefore(db, j, input[1], input[2]))
                  => db'.subject_relations = db.subject_relations
        /\ \A i \in DOMAIN db'.subject_relations, j \in DOMAIN db'.subject_relations :
              db'.subject_relations[i] = db'.subject_relations[j] => i = j
      ]_vars

\* The same insight was inserted twice with the same complete git context,
\* and the relations of the first insert are the only ones stored.
C21_Witness ==
    /\ returned.op = "insert"
    /\ returned.id = 2
    /\ DOMAIN db.insights = {1, 2}
    /\ Tags(db.insights[1]) = Tags(db.insights[2])
    /\ \A kind \in GitKinds, j \in {1, 2} :
          \E m \in DOMAIN db.insight_subjects :
              /\ db.insight_subjects[m].insight_id = j
              /\ db.insight_subjects[m].subject_id[1] = kind
    /\ Len(db.subject_relations) = 7
    /\ \E r \in DOMAIN db.subject_relations :
          db.subject_relations[r].relation_type = "solved_by"

\* The seven auto-relation rules with the two tag lists each one pairs up.
AutoRules(insight) ==
    { <<"context", "frames", "problem", insight.contexts, insight.problems>>,
      <<"context", "applies_to", "domain", insight.contexts, insight.domains>>,
      <<"context", "involves", "entity", insight.contexts, insight.entities>>,
      <<"entity", "has_problem", "problem", insight.entities, insight.problems>>,
      <<"problem", "solved_by", "resolution", insight.problems, insight.resolutions>>,
      <<"resolution", "applies_to", "entity", insight.resolutions, insight.entities>>,
      <<"domain", "scopes", "entity", insight.domains, insight.entities>> }

\* The number of subject_relations rows from one subject to another of the
\* given type.
EdgeCount(d, from_kind, from_name, relation_type, to_kind, to_name) ==
    Cardinality({r \in DOMAIN d.subject_relations :
                    /\ d.subject_relations[r].from_subject_id = <<from_kind, from_name>>
                    /\ d.subject_relations[r].relation_type = relation_type
                    /\ d.subject_relations[r].to_subject_id = <<to_kind, to_name>>})

\* The subjects table has a row with that id, kind and name.
SubjectStored(d, kind, name) ==
    \E i \in DOMAIN d.subjects :
        d.subjects[i] = [id |-> <<kind, name>>, name |-> name, kind |-> kind]

\* C22: after every insert(), for each of the seven rules and every pair of
\* the Cartesian product of its two tag lists (tags that name a subject, i.e.
\* are non-empty after strip+lowercase), subject_relations holds exactly one
\* edge of the rule's type between the two subjects, and both subjects exist.
C22_AutoRelationsCartesianProduct ==
    [][ \A input \in RelateInputs :
            Insert(input[1], input[2])
                => \A rule \in AutoRules(input[1]) :
                      \A i \in DOMAIN rule[4], j \in DOMAIN rule[5] :
                          (SubjectName(rule[4][i]) # <<>> /\ SubjectName(rule[5][j]) # <<>>)
                              => /\ EdgeCount(db', rule[1], SubjectName(rule[4][i]), rule[2],
                                              rule[3], SubjectName(rule[5][j])) = 1
                                 /\ SubjectStored(db', rule[1], SubjectName(rule[4][i]))
                                 /\ SubjectStored(db', rule[3], SubjectName(rule[5][j]))
      ]_vars

\* An insight with two problems and two named resolutions (and a blank one)
\* was inserted: the four solved_by edges of the product are stored, and the
\* blank resolution gave none.
C22_Witness ==
    /\ returned.op = "insert"
    /\ returned.id \in DOMAIN db.insights
    /\ Len(db.insights[returned.id].problems) = 2
    /\ Len(db.insights[returned.id].resolutions) = 3
    /\ Cardinality({r \in DOMAIN db.subject_relations :
                       db.subject_relations[r].relation_type = "solved_by"}) = 4
    /\ Cardinality({r \in DOMAIN db.subject_relations :
                       db.subject_relations[r].relation_type = "frames"}) = 2

\* The five fixed git-context relations.
GitRules ==
    { <<"repo", "contains", "project">>, <<"project", "contains", "task">>,
      <<"task", "produces", "pr">>, <<"person", "authors", "pr">>,
      <<"person", "works_on", "project">> }

\* The rows of a table (kept in insertion order) that a step added.
Added(old, new) == {new[i] : i \in (Len(old) + 1)..Len(new)}

\* The row is a relation that git and the insight's resolutions call for: a
\* fixed relation whose two endpoints were both given, or implemented_in from
\* a resolution of the insight to the given pr.
GitRelationCalledFor(row, insight, git) ==
    \/ \E rule \in GitRules :
          /\ GitName(git, rule[1]) # <<>>
          /\ GitName(git, rule[3]) # <<>>
          /\ row = [from_subject_id |-> <<rule[1], SubjectName(GitName(git, rule[1]))>>,
                    to_subject_id |-> <<rule[3], SubjectName(GitName(git, rule[3]))>>,
                    relation_type |-> rule[2]]
    \/ /\ git.pr # <<>>
       /\ \E i \in DOMAIN insight.resolutions :
             /\ SubjectName(insight.resolutions[i]) # <<>>
             /\ row = [from_subject_id |->
                           <<"resolution", SubjectName(insight.resolutions[i])>>,
                       to_subject_id |-> <<"pr", SubjectName(git.pr)>>,
                       relation_type |-> "implemented_in"]

\* C23: an insert() stores each git-context relation whose two endpoints are
\* both supplied (a name is supplied when the argument is not the empty
\* string), and adds no other relation that touches a git-kind subject; with
\* no git field supplied it adds no git-kind subject, membership or relation.
C23_GitRelationsIffBothSupplied ==
    [][ \A input \in RelateInputs :
            Insert(input[1], input[2])
                => /\ \A rule \in GitRules :
                          (GitName(input[2], rule[1]) # <<>> /\ GitName(input[2], rule[3]) # <<>>)
                              => EdgeCount(db', rule[1], SubjectName(GitName(input[2], rule[1])),
                                           rule[2], rule[3],
                                           SubjectName(GitName(input[2], rule[3]))) = 1
                   /\ \A i \in DOMAIN input[1].resolutions :
                          (input[2].pr # <<>> /\ SubjectName(input[1].resolutions[i]) # <<>>)
                              => EdgeCount(db', "resolution",
                                           SubjectName(input[1].resolutions[i]),
                                           "implemented_in", "pr",
                                           SubjectName(input[2].pr)) = 1
                   /\ \A row \in Added(db.subject_relations, db'.subject_relations) :
                          (row.from_subject_id[1] \in GitKinds
                             \/ row.to_subject_id[1] \in GitKinds)
                              => GitRelationCalledFor(row, input[1], input[2])
                   /\ (\A kind \in GitKinds : GitName(input[2], kind) = <<>>)
                          => /\ \A row \in Added(db.subjects, db'.subjects) :
                                    row.kind \notin GitKinds
                             /\ \A row \in Added(db.insight_subjects, db'.insight_subjects) :
                                    row.subject_id[1] \notin GitKinds
                             /\ \A row \in Added(db.subject_relations, db'.subject_relations) :
                                    /\ row.from_subject_id[1] \notin GitKinds
                                    /\ row.to_subject_id[1] \notin GitKinds
      ]_vars

\* An insight with resolutions was inserted with a pr and an author only:
\* person-authors-pr and the implemented_in edges are stored, and no relation
\* involving a repo, a project or a task.
C23_Witness ==
    /\ returned.op = "insert"
    /\ Len(db.subjects) > 0
    /\ \E r \in DOMAIN db.subject_relations :
          db.subject_relations[r].relation_type = "authors"
    /\ \E r \in DOMAIN db.subject_relations :
          db.subject_relations[r].relation_type = "implemented_in"
    /\ \A r \in DOMAIN db.subject_relations :
          /\ db.subject_relations[r].relation_type \notin {"contains", "produces", "works_on"}
          /\ db.subject_relations[r].from_subject_id[1] \notin {"repo", "project", "task"}
          /\ db.subject_relations[r].to_subject_id[1] \notin {"repo", "project", "task"}
    /\ \E i \in DOMAIN db.subjects : db.subjects[i].kind = "person"
    /\ \A i \in DOMAIN db.subjects : db.subjects[i].kind \notin {"repo", "project", "task"}

\* C24: every name in the subjects table is non-empty and is its own
\* strip+lowercase, for tag kinds and git kinds alike.
C24_SubjectNamesNormalizedNonEmpty ==
    \A i \in DOMAIN db.subjects :
        /\ db.subjects[i].name # <<>>
        /\ SubjectName(db.subjects[i].name) = db.subjects[i].name

\* C25: update() of a stored insight with a field outside the allowlist ends
\* with InvalidField: it returns no insight and writes nothing.
C25_UpdateRejectsFieldsOutsideAllowlist ==
    [][ \A insight_id \in InsightIds, kwargs \in UpdateInputs :
            (/\ UpdateInsight(insight_id, kwargs)
             /\ insight_id \in DOMAIN db.insights
             /\ ~(DOMAIN kwargs \subseteq Allowed))
                => /\ returned'.op = "InvalidField"
                   /\ db' = db
      ]_vars

\* The ids of the rows in a list of search results.
ResultIds(results) == {results[k].id : k \in DOMAIN results}

\* The last call was search_by_embedding(); no row has been written since.
Searched == returned.op = "search_by_embedding"

\* C26: search_by_embedding returns its results in non-increasing order of
\* score, at most limit of them (limit of them when there are as many
\* candidates), each a candidate returned once, and no candidate left out
\* scores higher than a returned one.
C26_SearchRankedTopK ==
    Searched
        => LET results == returned.results
               scored == Scored(db, returned.query_embedding,
                                Candidates(db, returned.domain))
           IN /\ Len(results) <= returned.limit
              /\ Len(results) = returned.limit \/ Len(results) = Len(scored)
              /\ \A k \in 1..(Len(results) - 1) :
                    ScoreAtLeast(results[k].score, results[k + 1].score)
              /\ \A k \in DOMAIN results :
                    \E c \in DOMAIN scored : scored[c] = results[k]
              /\ Cardinality(ResultIds(results)) = Len(results)
              /\ \A c \in DOMAIN scored :
                    scored[c].id \notin ResultIds(results)
                        => \A k \in DOMAIN results :
                              ScoreAtLeast(results[k].score, scored[c].score)

\* The ranked-search test: the row with embedding [0,1] was inserted before
\* the row with [1,0], and the query [0.9,0.1] with limit 2 returned them in
\* the other order, the scores strictly decreasing.
C26_Witness ==
    /\ Searched
    /\ returned.query_embedding = <<9, 1>>
    /\ returned.limit = 2
    /\ Len(returned.results) = 2
    /\ returned.results[1].id = 2
    /\ returned.results[2].id = 1
    /\ db.embedding[2] = <<1, 0>>
    /\ db.embedding[1] = <<0, 1>>
    /\ ~ScoreAtLeast(returned.results[2].score, returned.results[1].score)

\* C27 as stated: a search with a limit greater than the number of stored
\* insights returns all the stored rows.
C27_SearchBeyondCountReturnsAllRows ==
    (Searched /\ returned.limit > Cardinality(DOMAIN db.insights))
        => /\ ResultIds(returned.results) = DOMAIN db.insights
           /\ Len(returned.results) = Cardinality(DOMAIN db.insights)

\* C27 amended: a search with a query of non-zero norm and a limit greater
\* than the number of stored insights returns, each once, the stored rows
\* that have an embedding of non-zero norm and, when a domain is given, carry
\* that domain; rows with a missing or zero-norm embedding are not returned.
C27_SearchBeyondCountReturnsAllCandidates ==
    (/\ Searched
     /\ returned.limit > Cardinality(DOMAIN db.insights)
     /\ returned.query_embedding # <<0, 0>>)
        => LET searchable ==
                   {i \in DOMAIN db.insights :
                       /\ i \in DOMAIN db.embedding
                       /\ \E k \in DOMAIN db.embedding[i] : db.embedding[i][k] # 0
                       /\ returned.domain # <<>>
                            => \E t \in DOMAIN db.insights[i].domains :
                                  Lower(db.insights[i].domains[t]) = Lower(returned.domain)}
           IN /\ ResultIds(returned.results) = searchable
              /\ Len(returned.results) = Cardinality(searchable)

\* Two insights are stored, one without an embedding and one pointing away
\* from the query; a search with limit 3 returned the second and only it.
C27_Witness ==
    /\ Searched
    /\ returned.limit = 3
    /\ returned.domain = <<>>
    /\ returned.query_embedding # <<0, 0>>
    /\ DOMAIN db.insights = {1, 2}
    /\ DOMAIN db.embedding = {2}
    /\ db.embedding[2] = <<-1, 0>>
    /\ ResultIds(returned.results) = {2}

\* The kb_chunks rows of one knowledge base.
ChunksOf(d, kb_id) == {c \in DOMAIN d.kb_chunks : d.kb_chunks[c].chunk.kb_id = kb_id}

\* C28: delete_kb(kb_id) of a stored knowledge base removes it and leaves no
\* kb_chunks row with that kb_id; the other knowledge bases, their chunks and
\* the subject memberships of those chunks are as before.
C28_DeleteKbCascadesToChunks ==
    [][ \A kb_id \in KbIds :
            (DeleteKb(kb_id) /\ kb_id \in DOMAIN db.knowledge_bases)
                => /\ kb_id \notin DOMAIN db'.knowledge_bases
                   /\ ChunksOf(db', kb_id) = {}
                   /\ \A other \in DOMAIN db.knowledge_bases \ {kb_id} :
                          /\ other \in DOMAIN db'.knowledge_bases
                          /\ db'.knowledge_bases[other] = db.knowledge_bases[other]
                   /\ \A c \in DOMAIN db.kb_chunks \ ChunksOf(db, kb_id) :
                          /\ c \in DOMAIN db'.kb_chunks
                          /\ db'.kb_chunks[c] = db.kb_chunks[c]
                          /\ \A m \in DOMAIN db.kb_chunk_subjects :
                                db.kb_chunk_subjects[m].kb_chunk_id = c
                                    => \E n \in DOMAIN db'.kb_chunk_subjects :
                                          db'.kb_chunk_subjects[n] = db.kb_chunk_subjects[m]
                   /\ \A n \in DOMAIN db'.kb_chunk_subjects :
                          db'.kb_chunk_subjects[n].kb_chunk_id \notin ChunksOf(db, kb_id)
      ]_vars

\* Two knowledge bases were created and each given a chunk; one was deleted
\* and took its chunk along, the chunk of the other is still there.
C28_Witness ==
    /\ returned.op = "delete_kb"
    /\ returned.found
    /\ uuids = 4
    /\ Cardinality(DOMAIN db.knowledge_bases) = 1
    /\ Len(db.subjects) = 2
    /\ Cardinality(DOMAIN db.kb_chunks) = 1
    /\ \A c \in DOMAIN db.kb_chunks : db.kb_chunks[c].chunk.kb_id \in DOMAIN db.knowledge_bases
    /\ Len(db.kb_chunk_subjects) = 1
    /\ ChunksOf(db, returned.id) = {}

\* C29: normalize() returns one insight per atom of the decomposition, the
\* i-th insight being built from the i-th atom and from the classification
\* of that atom, in whatever order the classify() calls completed.
C29_NormalizeKeepsDecompositionOrder ==
    normalize.pc = "returned"
        => /\ Len(normalize.insights) = Len(normalize.atoms)
           /\ \A i \in DOMAIN normalize.atoms :
                 LET insight == normalize.insights[i]
                     classification == ClassifyResponse(normalize.atoms[i])
                 IN /\ insight.text = normalize.atoms[i]
                    /\ insight.normalized_text = classification.normalized
                    /\ insight.frame = classification.frame
                    /\ insight.entities = classification.entities
                    /\ insight.problems = classification.problems
                    /\ insight.resolutions = classification.resolutions
                    /\ insight.contexts = classification.contexts
                    /\ insight.domains = normalize.domains
                    /\ insight.source = normalize.source

\* Two atoms were classified, the second call completing first, and
\* normalize() returned the insight of the first atom first.
C29_Witness ==
    /\ normalize.pc = "returned"
    /\ normalize.atoms = <<"kind", "jwt">>
    /\ normalize.order = <<2, 1>>
    /\ Len(normalize.insights) = 2
    /\ normalize.insights[1].frame = "taxonomy"
    /\ normalize.insights[2].frame = "constraint"

\* The minimum confidence in force: what MIN_CONFIDENCE_THRESHOLD says when
\* it is set, one half otherwise (in ten-thousandths).
ConfiguredMinimum ==
    IF "MIN_CONFIDENCE_THRESHOLD" \in DOMAIN environ
      THEN CASE environ["MIN_CONFIDENCE_THRESHOLD"] = "0.0" -> 0
             [] environ["MIN_CONFIDENCE_THRESHOLD"] = "0.9" -> 9000
      ELSE 5000

AtMinimum(insight) == insight.confidence >= ConfiguredMinimum

\* The raw score of the insights of the model's classifications.
RawScore(insight) ==
    CASE insight.text = "jwt" -> 10000
      [] insight.text = "has" -> 5000
      [] insight.text = "kind" -> 840

\* C30: the normalizer returns one insight per atom, each with its raw
\* score, whether or not it is below the minimum; ingest_page() stores the
\* normalized insights whose confidence is not below the configured minimum
\* (one half unless MIN_CONFIDENCE_THRESHOLD says otherwise), each once and
\* in order, stores nothing else, and returns their number.
C30_ConfidenceFilteredAtIngest ==
    [][ LET kept == SelectSeq(ingest'.all_insights, AtMinimum)
        IN /\ (normalize.pc # "returned" /\ normalize'.pc = "returned")
                 => /\ Len(normalize'.insights) = Len(normalize'.atoms)
                    /\ \A i \in DOMAIN normalize'.insights :
                          normalize'.insights[i].confidence
                             = RawScore(normalize'.insights[i])
           /\ db'.kb_chunks # db.kb_chunks
                 => /\ ingest.pc = "store"
                    /\ ingest'.stored = ingest.stored + 1
                    /\ ingest'.stored <= Len(kept)
                    /\ uuids' \notin DOMAIN db.kb_chunks
                    /\ db'.kb_chunks =
                          db.kb_chunks @@
                             (uuids' :> [chunk |-> ChunkOfInsight(ingest.kb_id,
                                                                 kept[ingest'.stored],
                                                                 ingest.url),
                                         embedding |-> Embed(kept[ingest'.stored].normalized_text)])
           /\ (ingest.pc # "returned" /\ ingest'.pc = "returned")
                 => /\ ingest'.ret = Len(kept)
                    /\ kept # <<>> => ingest.stored = Len(kept)
      ]_vars

\* A page of two chunks gave three insights, one at the minimum of one
\* half, one above and one below it; with MIN_CONFIDENCE_THRESHOLD unset,
\* ingest_page() stored the first two and returned 2.
C30_Witness ==
    /\ ingest.pc = "returned"
    /\ "MIN_CONFIDENCE_THRESHOLD" \notin DOMAIN environ
    /\ Len(ingest.all_insights) = 3
    /\ {ingest.all_insights[i].confidence : i \in 1..3} = {840, 5000, 10000}
    /\ ingest.ret = 2
    /\ DOMAIN db.kb_chunks = {1, 2}
    /\ {db.kb_chunks[c].chunk.confidence : c \in {1, 2}} = {5000, 10000}

\* The insights of the running (or last) ingest_page() call that are not
\* below the threshold it read.
AtThreshold(insight) == insight.confidence >= ingest.min_threshold
KeptInsights == SelectSeq(ingest.all_insights, AtThreshold)
NormalizedTexts(insights) == [i \in DOMAIN insights |-> insights[i].normalized_text]

\* C31 as stated: every page that ingest_page() returns from has had exactly
\* one embed_batch() call.
C31_EmbedBatchOncePerPage ==
    ingest.pc = "returned"
        => /\ Len(ingest.embed_batch) = 1
           /\ ingest.embed_batch[1] = NormalizedTexts(KeptInsights)

\* C31: ingest_page() never calls embed_batch() more than once for a page;
\* a page it returns from with kept insights has had exactly one call, with
\* the normalized texts of all kept insights of all its chunks in order, and
\* a page without kept insights has had none.
C31_EmbedBatchOncePerPageWithKeptInsights ==
    /\ Len(ingest.embed_batch) <= 1
    /\ ingest.pc = "returned"
          => IF KeptInsights # <<>>
               THEN ingest.embed_batch = <<NormalizedTexts(KeptInsights)>>
               ELSE ingest.embed_batch = <<>>

\* A page of two chunks, each giving kept insights: one embed_batch() call
\* with the texts of both chunks.
C31_Witness ==
    /\ ingest.pc = "returned"
    /\ Len(ingest.text_chunks) = 2
    /\ ingest.skipped = {}
    /\ Len(ingest.all_insights) = 3
    /\ Len(KeptInsights) = 2
    /\ KeptInsights[1].text = "has"
    /\ KeptInsights[2].text = "jwt"
    /\ Len(ingest.embed_batch) = 1
    /\ Len(ingest.embed_batch[1]) = 2
    /\ ingest.ret = 2

\* ingest_page() is between its call and its return.
IngestRunning == ingest.pc \in {"normalize", "await", "embed", "store"}

\* C32: while ingest_page() works on a page, the database changes only by
\* the rows of kept insights; a page without kept insights (no chunk, every
\* chunk failing, or every insight below the threshold) is returned from
\* with 0 and with the database as it was.
C32_NoKeptInsightsNoWrite ==
    [][ /\ (IngestRunning /\ db' # db) => KeptInsights # <<>>
        /\ (IngestRunning /\ ingest'.pc = "returned" /\ KeptInsights' = <<>>)
              => /\ ingest'.ret = 0
                 /\ ingest'.stored = 0
                 /\ ingest.pc = "normalize"
                 /\ db' = db
      ]_vars

\* On an opened store, a page of two chunks gave insights that were all
\* below the threshold: ingest_page() returned 0 and no chunk is stored.
C32_Witness ==
    /\ ingest.pc = "returned"
    /\ "kb_chunks" \in db.schema
    /\ Len(ingest.text_chunks) = 2
    /\ Len(ingest.all_insights) = 2
    /\ KeptInsights = <<>>
    /\ ingest.ret = 0
    /\ DOMAIN db.kb_chunks = {}

\* C33: when normalize() raises for a chunk, ingest_page() goes on to the
\* next chunk with the insights collected so far; ingest_page() itself never
\* raises because of a chunk, and it returns only after every chunk of the
\* page was handed to normalize(), with every kept insight of the chunks
\* that did not fail stored.
C33_FailedChunkIsSkipped ==
    [][ /\ (ingest.pc = "await" /\ normalize.pc = "raised" /\ ingest' # ingest)
              => /\ ingest'.pc = "normalize"
                 /\ ingest'.chunk = ingest.chunk + 1
                 /\ ingest'.all_insights = ingest.all_insights
                 /\ ingest'.text_chunks = ingest.text_chunks
        /\ (ingest.pc = "await" /\ normalize.pc = "returned" /\ ingest' # ingest)
              => /\ ingest'.pc = "normalize"
                 /\ ingest'.chunk = ingest.chunk + 1
                 /\ ingest'.all_insights = ingest.all_insights \o normalize.insights
        /\ (IngestRunning /\ ingest'.pc = "raised") => ingest.pc \in {"embed", "store"}
        /\ (IngestRunning /\ ingest'.pc = "returned")
              => /\ ingest'.chunk = Len(ingest'.text_chunks) + 1
                 /\ ingest'.ret = Len(KeptInsights')
                 /\ ingest'.stored = ingest'.ret
      ]_vars

\* Normalization of the first chunk of a page failed; the insights of its
\* second chunk were stored all the same.
C33_Witness ==
    /\ ingest.pc = "returned"
    /\ Len(ingest.text_chunks) = 2
    /\ ingest.skipped = {1}
    /\ Len(ingest.all_insights) = 2
    /\ ingest.ret = 2
    /\ DOMAIN db.kb_chunks = {1, 2}
    /\ \A c \in {1, 2} : db.kb_chunks[c].chunk.text = ingest.all_insights[c].text

\* C34: the calls the progress callback of ingest_crawl() has received are
\* (1, total, url of page 1), (2, total, url of page 2), ... in page order,
\* one for each page taken so far and none for a page before the ingestion
\* of the page before it has returned; when ingest_crawl() returns there is
\* exactly one call per page.  Without a callback there is no call.
C34_ProgressOncePerPageInOrder ==
    LET pages == ingest_crawl.pages
        calls == ingest_crawl.on_progress
        total == Len(pages)
    IN /\ ~ingest_crawl.has_progress => calls = <<>>
       /\ ingest_crawl.has_progress
             => /\ Len(calls) <= total
                /\ \A k \in DOMAIN calls :
                      /\ calls[k][1] = k
                      /\ calls[k][2] = total
                      /\ calls[k][3] = pages[k].url
                /\ ingest_crawl.pc = "page" => Len(calls) = ingest_crawl.page - 1
                /\ ingest_crawl.pc = "await"
                      => /\ Len(calls) = ingest_crawl.page
                         /\ ingest.url = pages[ingest_crawl.page].url
                /\ ingest_crawl.pc = "returned" => Len(calls) = total

\* A crawl of two pages with a callback has returned: the callback was
\* called for the first page and then for the second, and the chunk of the
\* first page is counted.
C34_Witness ==
    /\ ingest_crawl.pc = "returned"
    /\ ingest_crawl.has_progress
    /\ Len(ingest_crawl.pages) = 2
    /\ ingest_crawl.on_progress = <<<<1, 2, "u2">>, <<2, 2, "u0">>>>
    /\ ingest_crawl.ret = 1
    /\ DOMAIN db.kb_chunks = {1}

\* C35: whatever validator or hook ran and whatever it read, it wrote a
\* single JSON object to stdout, and its exit code is 0 if and only if that
\* object has allow = true.
C35_ExitZeroIffAllow ==
    hook.script # "none" =>
        /\ Len(hook.stdout) = 1
        /\ hook.exit = 0 <=> hook.stdout[1].allow

\* The lock table has only entries with a task id and a resource that is
\* not empty once normalized.
WellFormedLockTable(locks) ==
    \A i \in DOMAIN locks :
        /\ locks[i].task_id # ""
        /\ normalize_resource(locks[i].resource) # <<>>

\* Two active entries of different tasks whose normalized resources are
\* equal or nested at a "/".
OverlappingPair(locks) ==
    \E i \in DOMAIN locks, j \in DOMAIN locks :
        /\ i # j
        /\ locks[i].active /\ locks[j].active
        /\ locks[i].task_id # locks[j].task_id
        /\ PathsOverlap(normalize_resource(locks[i].resource),
                        normalize_resource(locks[j].resource))

\* C39: on a well-formed lock table on_lock_update answers R-LK-001 exactly
\* when two active locks of different tasks overlap after normalization, and
\* allows with OK otherwise: inactive locks and locks of one task never
\* cause a denial.
C39_LockUpdateDeniesExactlyOverlaps ==
    (/\ hook.script = "on_lock_update"
     /\ hook.stdin.json = "list"
     /\ WellFormedLockTable(hook.stdin.locks)) =>
        /\ Len(hook.stdout) = 1
        /\ IF OverlappingPair(hook.stdin.locks)
             THEN ~hook.stdout[1].allow /\ hook.stdout[1].code = "R-LK-001" /\ hook.exit # 0
             ELSE hook.stdout[1].allow /\ hook.stdout[1].code = "OK" /\ hook.exit = 0

\* " s/" held by T-1 and "s/./a" by T-2, both active: denied with R-LK-001.
C39_Witness ==
    /\ hook.script = "on_lock_update"
    /\ hook.stdin.json = "list"
    /\ hook.stdin.locks = << [task_id |-> "T-1", resource |-> <<" ", "s", "/">>,
                              active |-> TRUE],
                             [task_id |-> "T-2", resource |-> <<"s", "/", ".", "/", "a">>,
                              active |-> TRUE] >>
    /\ hook.stdout = <<[allow |-> FALSE, code |-> "R-LK-001",
                        reason |-> "Overlapping active locks detected"]>>
    /\ hook.exit = 1

\* C40: pre_complete allows only if every required criterion is named by an
\* acceptance_check entry and every entry has status "pass" and a non-empty
\* evidence string; an entry that did not pass is a denial whatever else it
\* holds.
C40_CompletionRequiresAllPass ==
    (/\ hook.script = "pre_complete"
     /\ Len(hook.stdout) = 1
     /\ hook.stdout[1].allow) =>
        /\ hook.stdin.json = "dict"
        /\ \A r \in DOMAIN hook.stdin.required_criteria :
               \E e \in DOMAIN hook.stdin.acceptance_check :
                   hook.stdin.acceptance_check[e].criterion = hook.stdin.required_criteria[r]
        /\ \A e \in DOMAIN hook.stdin.acceptance_check :
               /\ hook.stdin.acceptance_check[e].status = "pass"
               /\ hook.stdin.acceptance_check[e].evidence \notin {None, ""}

\* C37: an assign_locks call that raises LockConflict leaves none of the
\* locks it asked for active for the task: no row the call inserted is an
\* active lock of the task afterwards.
C37_AssignLocksAllOrNothing ==
    [][\A t \in TaskIds, rs \in ResourceLists :
          (AssignLocks(t, rs) /\ ret'.err = "LockConflict") =>
              ~\E i \in DOMAIN task_locks' :
                  /\ i > Len(task_locks)
                  /\ task_locks'[i].task_id = t
                  /\ task_locks'[i].active]_vars

TerminalStates == {"done", "failed", "canceled"}

\* C38: in every state reached through create_task, assign_locks,
\* release_locks and transition, no task that is done, failed or canceled
\* owns a lock with active = true.
C38_TerminalTasksHoldNoActiveLock ==
    \A i \in DOMAIN task_locks :
        (task_locks[i].active /\ task_locks[i].task_id \in DOMAIN tasks)
            => tasks[task_locks[i].task_id].status \notin TerminalStates

\* C36: an operation that fails does not return: update_insight for an id
\* the store does not have raises a typed error instead of returning a
\* string or any other value.
C36_MissingIdRaisesTypedError ==
    [][\A insight_id \in InsightIds, confidence \in ConfidenceInputs :
          (AppUpdateInsight(insight_id, confidence) /\ insight_id \notin DOMAIN db.insights)
              => app'.raised # "none"]_vars

====
